---- MODULE Spec2Model ----
(***************************************************************************)
(* A model of libvfn's IOMMU address-space manager (the vaddr -> IOVA      *)
(* skip list, the IOVA bump allocator, the sticky and ephemeral mapping    *)
(* calls) and of the NVMe one-shot command path built on top of it.        *)
(*                                                                         *)
(* Addresses and lengths are byte values.  TLC's integers are 32 bit wide, *)
(* so the modelled address space lies far below the 64-bit limits of the   *)
(* program; no modelled sum reaches the width at which the C arithmetic    *)
(* would wrap.                                                             *)
(***************************************************************************)
EXTENDS Integers, Sequences, FiniteSets, TLC

(***************************************************************************)
(* Bounds of the model.                                                    *)
(***************************************************************************)
\* keys (vaddr) handed to the raw index operations are 0 .. MaxKey
MaxKey == 3
\* lengths handed to the raw index operations are 0 .. MaxLen
MaxLen == 2
\* at most MaxEntries mappings are in the index at a time
MaxEntries == 3
\* the context's buffers start at the pages 0 .. MaxVPage - 1
MaxVPage == 3
\* map and map_ephemeral are called with lengths of 0 .. MaxLenPages pages
MaxLenPages == 2
\* the backend permits two IOVA ranges, of Range0Pages and Range1Pages pages
Range0Pages == 2
\* the sticky calls of SpecEph map the buffers at the pages 0 .. EphVPages - 1
EphVPages == 2
Range1Pages == 3
\* the admin submission queue has SqDepth entries
SqDepth == 3
\* NThreads threads call into the context and the queue pair
NThreads == 2
\* the largest number of CQEs a wait is asked for
MaxWaitN == 2
\* the vfio_state objects of the process
NVfio == 2
\* the descriptors a process may have open
MaxFds == 7
\* the threads make at most MaxCalls calls
MaxCalls == 3
\* the largest timeout_ns a wait is called with
MaxTimeoutNs == 2
\* the tick counter stops at MaxTicks and advances TickQuantum at a time;
\* a wait is called when its deadline lies before the counter stops
MaxTicks == 4000
TickQuantum == 500

(***************************************************************************)
(* Program constants.                                                      *)
(***************************************************************************)
SKIPLIST_LEVELS == 8
\* errno values (Linux)
ENOENT == 2
EBADF == 9
EIO == 5
ENOMEM == 12
EEXIST == 17
EINVAL == 22
EAGAIN == 11
EBUSY == 16
\* the bit nvme_aer sets in the cid of an Asynchronous Event Request
NVME_CID_AER == 32768
ETIMEDOUT == 110
\* linux/vfio.h
VFIO_API_VERSION == 0
\* sizeof(struct vfio_iommu_type1_info), and the bytes of capabilities the
\* kernel may have beyond it
InfoSize == 32
CapSize == 24

\* __VFN_PAGESIZE (sysconf(_SC_PAGESIZE)) and __VFN_IOVA_MIN
VFN_PAGESIZE == 4096
IOVA_MIN == 65536

\* the two list anchors of struct iova_map, and the null pointer
sentinel == 0
nil == -1
NULL == -2
\* nil.mapping.vaddr = (void *)UINT64_MAX: the largest address.  The model
\* uses the largest integer TLC represents; every modelled key is below it.
NIL_VADDR == 2147483647

Levels == 0 .. (SKIPLIST_LEVELS - 1)

Max(a, b) == IF a > b THEN a ELSE b

\* the range [a, a + alen) meets the range [b, b + blen)
Overlap(a, alen, b, blen) == a < b + blen /\ b < a + alen

\* v lies in the vaddr range of mapping e
Contains(e, v) == e.vaddr <= v /\ v < e.vaddr + e.len

VARIABLES
    map,        \* struct iova_map: [height, list]
    iommu,      \* the IOVA allocator: [next, nephemeral, ephemeral_watermark]
    dma,        \* the DMA mappings installed in the kernel (the backend)
    eph,        \* the ephemeral IOVAs callers hold: [iova, len]
    live,       \* history: the mappings inserted and not yet removed
    ret,        \* the last call and what it returned
    nvme,       \* the admin queue pair and the one-shot calls in progress
    vfio,       \* the descriptors of the process and the vfio_state objects
    thr,        \* the context calls in progress, one per thread
    ncalls,     \* the number of calls made
    wmark       \* history: the watermark captured when nephemeral last
                \* went from 0 to 1

vars == <<map, iommu, dma, eph, live, ret, nvme, vfio, thr, ncalls, wmark>>

(***************************************************************************)
(* The skip list (struct iova_map).                                        *)
(*   m.height     map->height                                             *)
(*   m.list       the allocated entries in the order of the level 0 list;  *)
(*                an entry is [vaddr, len, iova, top] and is linked on the *)
(*                levels 0 .. top                                          *)
(* A pointer to an entry is its position in m.list; sentinel, nil and NULL *)
(* are values of their own.  The list of level k is the entries of m.list  *)
(* with top >= k, in the same order: __iova_map_add links a new entry on   *)
(* every level k .. 0 behind path[k], and the first level-k entry behind   *)
(* path[k] lies behind path[0] (the descent stops in front of it on every  *)
(* lower level), so the level lists never disagree about the order;        *)
(* UnlinkIsComplete below checks that __iova_map_remove leaves no level    *)
(* of a freed entry linked.                                                *)
(***************************************************************************)
\* iova_map_init: height 0, every level holds sentinel -> nil only
iova_map_init == [height |-> 0, list |-> <<>>]

\* n->mapping for the sentinel (zeroed), nil and allocated entries
Mapping(m, n) ==
    IF n = sentinel THEN [vaddr |-> 0, len |-> 0, iova |-> 0]
    ELSE IF n = nil THEN [vaddr |-> NIL_VADDR, len |-> 0, iova |-> 0]
    ELSE [vaddr |-> m.list[n].vaddr, len |-> m.list[n].len,
          iova |-> m.list[n].iova]

\* the mappings the index holds
Entries(m) == {Mapping(m, n) : n \in 1 .. Len(m.list)}

\* skip_list_next(h, n, k): the first entry behind p that is linked on
\* level k, nil when there is none
skip_list_next(m, p, k) ==
    LET behind == {i \in (p + 1) .. Len(m.list) : m.list[i].top >= k}
    IN  IF behind = {} THEN nil
        ELSE CHOOSE i \in behind : \A j \in behind : i <= j

\* Let(v, In): In(v), with v evaluated once and bound to a value (TLC
\* evaluates the arguments of an operator by name, at every use)
Let(v, In(_)) == CHOOSE r \in {In(x) : x \in {v}} : TRUE

\* FindWalk with the bound test off by one (> for >=)
RECURSIVE FindWalkStrict(_, _, _, _)
FindWalkStrict(m, p, k, vaddr) ==
    Let(skip_list_next(m, p, k), LAMBDA next :
        IF vaddr > Mapping(m, next).vaddr + Mapping(m, next).len
        THEN FindWalkStrict(m, next, k, vaddr)
        ELSE p)

\* the inner while loop of __iova_map_find_path at level k, from p
RECURSIVE FindWalk(_, _, _, _)
FindWalk(m, p, k, vaddr) ==
    Let(skip_list_next(m, p, k), LAMBDA next :
        IF vaddr >= Mapping(m, next).vaddr + Mapping(m, next).len
        THEN FindWalk(m, next, k, vaddr)
        ELSE p)

\* the do/while loop of __iova_map_find_path: levels k .. 0
RECURSIVE FindDescend(_, _, _, _, _)
FindDescend(m, p, k, vaddr, path) ==
    Let(FindWalk(m, p, k, vaddr), LAMBDA q :
        Let([path EXCEPT ![k] = q], LAMBDA np :
            IF k = 0 THEN np ELSE FindDescend(m, q, k - 1, vaddr, np)))

\* __iova_map_find_path: the entry containing vaddr (or NULL) and the path
iova_map_find_path(m, vaddr) ==
    Let(FindDescend(m, sentinel, m.height, vaddr, [k \in Levels |-> NULL]),
        LAMBDA path :
        Let(skip_list_next(m, path[0], 0), LAMBDA p :
            [p |-> IF /\ vaddr >= Mapping(m, p).vaddr
                      /\ vaddr < Mapping(m, p).vaddr + Mapping(m, p).len
                   THEN p ELSE NULL,
             path |-> path]))

\* iommu_find_mapping: a pointer to the mapping containing vaddr (the
\* entry that holds it; Mapping dereferences it), or NULL
iommu_find_mapping(m, vaddr) == iova_map_find_path(m, vaddr).p

\* random_level(): the number of rand() draws above RAND_MAX / 2 in a row,
\* at most SKIPLIST_LEVELS - 1
random_level == 0 .. (SKIPLIST_LEVELS - 1)

\* __iova_map_add with the level lvl drawn by random_level(): the entry e
\* is linked on the levels k .. 0, on level 0 behind update[0]
iova_map_link(m, e, update, lvl) ==
    LET grow == lvl > m.height
        h == IF grow THEN m.height + 1 ELSE m.height
        k == IF grow THEN h ELSE lvl
        n == [vaddr |-> e.vaddr, len |-> e.len, iova |-> e.iova, top |-> k]
    IN  [height |-> h,
         list |-> SubSeq(m.list, 1, update[0]) \o <<n>>
                  \o SubSeq(m.list, update[0] + 1, Len(m.list))]

\* iova_map_add; memok is whether znew_t returned memory
iova_map_add(m, vaddr, len, iova, lvl, memok) ==
    Let(iova_map_find_path(m, vaddr), LAMBDA f :
        IF f.p # NULL THEN [map |-> m, rc |-> -1, errno |-> EEXIST]
        ELSE IF ~memok THEN [map |-> m, rc |-> -1, errno |-> ENOMEM]
        ELSE [map |-> iova_map_link(m, [vaddr |-> vaddr, len |-> len,
                                        iova |-> iova], f.path, lvl),
              rc |-> 0, errno |-> 0])

\* the unlinking loop of __iova_map_remove from level r on: the number of
\* levels it unlinks p from before it breaks or passes the height
RECURSIVE RemoveLevels(_, _, _, _)
RemoveLevels(m, update, p, r) ==
    IF r > m.height THEN 0
    ELSE IF skip_list_next(m, update[r], r) # p THEN 0
    ELSE 1 + RemoveLevels(m, update, p, r + 1)

\* the height left as it is when an entry is removed
ReduceHeightNever(m, h) == h

\* the height reduction loop of __iova_map_remove
RECURSIVE ReduceHeight(_, _)
ReduceHeight(m, h) ==
    IF h # 0 /\ skip_list_next(m, sentinel, h) = nil
    THEN ReduceHeight(m, h - 1)
    ELSE h

\* __iova_map_remove: unlink p, free it, reduce the height
iova_map_unlink(m, p, update) ==
    Let([m EXCEPT !.list = SubSeq(m.list, 1, p - 1)
                           \o SubSeq(m.list, p + 1, Len(m.list))],
        LAMBDA rest : [rest EXCEPT !.height = ReduceHeight(rest, m.height)])

\* iova_map_remove
iova_map_remove(m, vaddr) ==
    Let(iova_map_find_path(m, vaddr), LAMBDA f :
        IF f.p = NULL THEN [map |-> m, rc |-> -1, errno |-> ENOENT]
        ELSE [map |-> iova_map_unlink(m, f.p, f.path), rc |-> 0, errno |-> 0])

\* what free() of a pointer that malloc did not return does: the process is
\* aborted, or the call returns
FreeOutcomes == {"abort", "return"}

\* the body of the loop of iova_map_clear_with for the nodes i .. of the
\* level 0 list: unlink from level 0, skip a node that is both nil and the
\* sentinel, call fn when there is one, free; ev is what was done so far
RECURSIVE ClearNodes(_, _, _, _, _)
ClearNodes(nodes, i, fn, ub, ev) ==
    IF i > Len(nodes) THEN [events |-> ev, aborted |-> FALSE]
    ELSE
    Let(nodes[i], LAMBDA n :
    Let(Append(ev, [ev |-> "del", n |-> n]), LAMBDA e1 :
    IF n = nil /\ n = sentinel THEN ClearNodes(nodes, i + 1, fn, ub, e1)
    ELSE
    Let(IF fn THEN Append(e1, [ev |-> "fn", n |-> n]) ELSE e1, LAMBDA e2 :
    Let(Append(e2, [ev |-> "free", n |-> n]), LAMBDA e3 :
    IF n \in {sentinel, nil} /\ ub = "abort"
    THEN [events |-> e3, aborted |-> TRUE]
    ELSE ClearNodes(nodes, i + 1, fn, ub, e3)))))

\* iova_map_clear_with; fn is whether a callback is given.  The level 0
\* list runs from the sentinel over the entries to nil.
iova_map_clear_with(m, fn, ub) ==
    Let(ClearNodes(<<sentinel>> \o [i \in 1 .. Len(m.list) |-> i] \o <<nil>>,
                   1, fn, ub, <<>>), LAMBDA c :
        [map |-> IF c.aborted THEN m ELSE [m EXCEPT !.list = <<>>],
         events |-> c.events, aborted |-> c.aborted])

\* iommu_add_mapping
iommu_add_mapping(m, vaddr, len, iova, lvl, memok) ==
    IF len = 0 THEN [map |-> m, rc |-> -1, errno |-> EINVAL]
    ELSE iova_map_add(m, vaddr, len, iova, lvl, memok)

\* iommu_remove_mapping: the return value of iova_map_remove is dropped, the
\* errno it set (ENOENT when no mapping holds vaddr, 0 for none) stays
iommu_remove_mapping(m, vaddr) ==
    [map |-> iova_map_remove(m, vaddr).map,
     errno |-> iova_map_remove(m, vaddr).errno]

(***************************************************************************)
(* The IOVA allocator.  iova_ranges are the ranges the backend permits     *)
(* (iommu_get_iova_ranges), in range order.                                *)
(***************************************************************************)
iova_ranges ==
    << [start |-> IOVA_MIN,
        last |-> IOVA_MIN + Range0Pages * VFN_PAGESIZE - 1],
       [start |-> IOVA_MIN + (Range0Pages + 1) * VFN_PAGESIZE,
        last |-> IOVA_MIN + (Range0Pages + 1 + Range1Pages) * VFN_PAGESIZE
                 - 1] >>

\* iommu_init: the bump cursor starts at __VFN_IOVA_MIN
iommu_init == [next |-> IOVA_MIN, nephemeral |-> 0, ephemeral_watermark |-> 0]

ALIGNED(x, a) == x % a = 0

\* GetIovaFrom with the capacity test off by one (<= for <)
RECURSIVE GetIovaFromTight(_, _, _)
GetIovaFromTight(io, len, i) ==
    IF i > Len(iova_ranges)
    THEN [iommu |-> io, rc |-> -1, errno |-> ENOMEM, iova |-> 0]
    ELSE LET r == iova_ranges[i]
             next == Max(io.next, r.start)
         IN  IF r.last < io.next THEN GetIovaFromTight(io, len, i + 1)
             ELSE IF next > r.last \/ r.last - next + 1 <= len
             THEN GetIovaFromTight(io, len, i + 1)
             ELSE [iommu |-> [io EXCEPT !.next = next + len],
                   rc |-> 0, errno |-> 0, iova |-> next]

\* the for loop of iommu_get_iova, from range i on
RECURSIVE GetIovaFrom(_, _, _)
GetIovaFrom(io, len, i) ==
    IF i > Len(iova_ranges)
    THEN [iommu |-> io, rc |-> -1, errno |-> ENOMEM, iova |-> 0]
    ELSE LET r == iova_ranges[i]
             next == Max(io.next, r.start)
         IN  IF r.last < io.next THEN GetIovaFrom(io, len, i + 1)
             ELSE IF next > r.last \/ r.last - next + 1 < len
             THEN GetIovaFrom(io, len, i + 1)
             ELSE [iommu |-> [io EXCEPT !.next = next + len],
                   rc |-> 0, errno |-> 0, iova |-> next]

\* iommu_get_iova: the sticky allocation
iommu_get_iova(io, len) ==
    IF ~ALIGNED(len, VFN_PAGESIZE)
    THEN [iommu |-> io, rc |-> -1, errno |-> EINVAL, iova |-> 0]
    ELSE GetIovaFrom(io, len, 1)

\* ephemeral_allocate: the placement of the sticky allocation; nephemeral
\* is incremented and a 0 -> 1 transition records the watermark next - len
iommu_allocate_ephemeral_iova(io, len) ==
    Let(iommu_get_iova(io, len), LAMBDA a :
        IF a.rc # 0 THEN a
        ELSE [a EXCEPT !.iommu =
                 [a.iommu EXCEPT
                     !.nephemeral = @ + 1,
                     !.ephemeral_watermark =
                         IF io.nephemeral = 0 THEN a.iommu.next - len ELSE @]])

\* the rewind of ephemeral_release: next = ephemeral_watermark, and the
\* watermark is cleared
iommu_recycle_ephemeral_iovas(io) ==
    [io EXCEPT !.next = io.ephemeral_watermark, !.ephemeral_watermark = 0]

\* atomic_dec_fetch(&nephemeral) == 0 ? recycle : nothing
ephemeral_release(io) ==
    LET d == [io EXCEPT !.nephemeral = @ - 1]
    IN  IF d.nephemeral = 0 THEN iommu_recycle_ephemeral_iovas(d) ELSE d

(***************************************************************************)
(* The backend (the kernel's DMA mappings).  ok is whether the ioctl would *)
(* succeed on a valid request; the kernel refuses an empty mapping and an  *)
(* IOVA range that meets an installed one.                                 *)
(***************************************************************************)
iommu_map_dma(d, vaddr, len, iova, ok) ==
    IF ok /\ len > 0 /\ \A x \in d : ~Overlap(iova, len, x.iova, x.len)
    THEN [dma |-> d \cup {[vaddr |-> vaddr, len |-> len, iova |-> iova]},
          rc |-> 0]
    ELSE [dma |-> d, rc |-> -1]

\* DMA_UNMAP removes the installed mappings that lie in [iova, iova + len)
iommu_unmap_dma(d, len, iova, ok) ==
    IF ok
    THEN [dma |-> {x \in d : ~(iova <= x.iova /\ x.iova + x.len <= iova + len)},
          rc |-> 0]
    ELSE [dma |-> d, rc |-> -1]

(***************************************************************************)
(* What a call left behind for the properties to read.                     *)
(***************************************************************************)
NoCall == [op |-> "none", rc |-> 0, errno |-> 0]

Returned(op, rc, errno) == [op |-> op, rc |-> rc, errno |-> errno]

(***************************************************************************)
(* The IOMMU context calls.  c is the context [map, iommu, dma]; a call    *)
(* returns the context it leaves, its return code and errno, the IOVA it   *)
(* stored through its out parameter, and the backend calls it made.        *)
(***************************************************************************)
Ctx(m, io, d) == [map |-> m, iommu |-> io, dma |-> d]

Result(c, rc, errno, iova, calls) ==
    [ctx |-> c, rc |-> rc, errno |-> errno, iova |-> iova, calls |-> calls]

\* a backend call as the properties see it
Call(name, iova, len, rc) ==
    [name |-> name, iova |-> iova, len |-> len, rc |-> rc]

\* iommu_vaddr_to_iova: translate(vaddr); ok is the bool it returns
iommu_vaddr_to_iova(m, vaddr) ==
    Let(iommu_find_mapping(m, vaddr), LAMBDA n :
        IF n # NULL
        THEN [ok |-> TRUE,
              iova |-> Mapping(m, n).iova + (vaddr - Mapping(m, n).vaddr)]
        ELSE [ok |-> FALSE, iova |-> 0])

\* vfio_map_vaddr: map(vaddr, len)
vfio_map_vaddr(c, vaddr, len, dmaok, memok, lvl) ==
    Let(iommu_vaddr_to_iova(c.map, vaddr), LAMBDA t :
    IF t.ok THEN Result(c, 0, 0, t.iova, <<>>)
    ELSE Let(iommu_get_iova(c.iommu, len), LAMBDA a :
    IF a.rc # 0 THEN Result(c, -1, a.errno, 0, <<>>)
    ELSE Let(iommu_map_dma(c.dma, vaddr, len, a.iova, dmaok), LAMBDA d :
    IF d.rc # 0
    THEN Result(Ctx(c.map, a.iommu, c.dma), -1, EIO, 0,
                <<Call("DMA_MAP", a.iova, len, d.rc)>>)
    ELSE Let(iommu_add_mapping(c.map, vaddr, len, a.iova, lvl, memok),
             LAMBDA i :
    IF i.rc # 0
    THEN Result(Ctx(c.map, a.iommu, d.dma), -1, i.errno, 0,
                <<Call("DMA_MAP", a.iova, len, d.rc)>>)
    ELSE Result(Ctx(i.map, a.iommu, d.dma), 0, 0, a.iova,
                <<Call("DMA_MAP", a.iova, len, d.rc)>>)))))

\* vfio_unmap_vaddr: unmap(vaddr)
vfio_unmap_vaddr(c, vaddr, dmaok) ==
    Let(iommu_find_mapping(c.map, vaddr), LAMBDA n :
    IF n = NULL THEN Result(c, 0, 0, 0, <<>>)
    ELSE Let(Mapping(c.map, n), LAMBDA m :
    Let(iommu_unmap_dma(c.dma, m.len, m.iova, dmaok), LAMBDA d :
    IF d.rc # 0
    THEN Result(c, -1, EIO, 0, <<Call("DMA_UNMAP", m.iova, m.len, d.rc)>>)
    ELSE Let(iommu_remove_mapping(c.map, m.vaddr), LAMBDA r :
         Result(Ctx(r.map, c.iommu, d.dma), 0, r.errno, 0,
                <<Call("DMA_UNMAP", m.iova, m.len, d.rc)>>)))))

\* vfio_map_vaddr_ephemeral that keeps nephemeral incremented when DMA_MAP
\* failed
vfio_map_vaddr_ephemeral_nodec(c, vaddr, len, dmaok) ==
    Let(iommu_allocate_ephemeral_iova(c.iommu, len), LAMBDA a :
    IF a.rc # 0 THEN Result(c, -1, a.errno, 0, <<>>)
    ELSE Let(iommu_map_dma(c.dma, vaddr, len, a.iova, dmaok), LAMBDA d :
    IF d.rc # 0
    THEN Result(Ctx(c.map, a.iommu, c.dma),
                -1, EIO, a.iova, <<Call("DMA_MAP", a.iova, len, d.rc)>>)
    ELSE Result(Ctx(c.map, a.iommu, d.dma), 0, 0, a.iova,
                <<Call("DMA_MAP", a.iova, len, d.rc)>>)))

\* vfio_map_vaddr_ephemeral: map_ephemeral(vaddr, len)
vfio_map_vaddr_ephemeral(c, vaddr, len, dmaok) ==
    Let(iommu_allocate_ephemeral_iova(c.iommu, len), LAMBDA a :
    IF a.rc # 0 THEN Result(c, -1, a.errno, 0, <<>>)
    ELSE Let(iommu_map_dma(c.dma, vaddr, len, a.iova, dmaok), LAMBDA d :
    IF d.rc # 0
    THEN Let([a.iommu EXCEPT !.nephemeral = @ - 1], LAMBDA io :
         Result(Ctx(c.map,
                    IF io.nephemeral = 0
                    THEN iommu_recycle_ephemeral_iovas(io) ELSE io,
                    c.dma),
                -1, EIO, a.iova, <<Call("DMA_MAP", a.iova, len, d.rc)>>))
    ELSE Result(Ctx(c.map, a.iommu, d.dma), 0, 0, a.iova,
                <<Call("DMA_MAP", a.iova, len, d.rc)>>)))

\* unmap_ephemeral(iova, len): DMA_UNMAP, then ephemeral_release; a failed
\* DMA_UNMAP is surfaced before the release, as in unmap
iommu_unmap_ephemeral_iova(c, len, iova, dmaok) ==
    Let(iommu_unmap_dma(c.dma, len, iova, dmaok), LAMBDA d :
    IF d.rc # 0
    THEN Result(c, -1, EIO, 0, <<Call("DMA_UNMAP", iova, len, d.rc)>>)
    ELSE Result(Ctx(c.map, ephemeral_release(c.iommu), d.dma),
                0, 0, 0, <<Call("DMA_UNMAP", iova, len, d.rc)>>))

\* vfio_unmap_ephemeral_iova
vfio_unmap_ephemeral_iova(c, len, iova, dmaok) ==
    iommu_unmap_ephemeral_iova(c, len, iova, dmaok)

(***************************************************************************)
(* The context calls of concurrent threads.  A call takes one step per     *)
(* critical section, backend ioctl or atomic operation; between the steps  *)
(* the other threads run.  The frame of a call holds                       *)
(*   pc, op         where the call is, and which call it is                *)
(*   vaddr, len     its arguments                                          *)
(*   iova           the IOVA it allocated or was handed                    *)
(*   found, m       the pointer find returned: whether it is non-NULL, and *)
(*                  the entry it points to as it was when find returned    *)
(*   dangling       the entry m points to has been freed since             *)
(*   rc, errno      what the call returns                                  *)
(*   zero           its atomic_dec_fetch(&nephemeral) returned 0           *)
(***************************************************************************)
NoMapping == [vaddr |-> 0, len |-> 0, iova |-> 0]

ThrFrame0 ==
    [pc |-> "idle", op |-> "none", vaddr |-> 0, len |-> 0, iova |-> 0,
     found |-> FALSE, m |-> NoMapping, dangling |-> FALSE, rc |-> 0,
     errno |-> 0, zero |-> FALSE]

\* the frame of a call at its first step
ThrCall(pc, op, vaddr, len) ==
    [ThrFrame0 EXCEPT !.pc = pc, !.op = op, !.vaddr = vaddr, !.len = len]

Threads == 1 .. NThreads

thr_init == [t \in Threads |-> ThrFrame0]

\* a word that is no address, length or IOVA of the model: what free()
\* and the next owner of the memory leave in a freed entry
Junk == NIL_VADDR \div 2

\* what a read of the field fld of a freed entry e yields: what the entry
\* held, zero, the field of an entry allocated since, or any other word
Garbage(m, e, fld) == {e[fld], 0, Junk} \cup {x[fld] : x \in Entries(m)}

\* what the reads of the fields flds through the pointer m of the frame f
\* yield: the entry, or, once it has been freed, any word for each field
Reads(m, f, flds) ==
    IF ~f.dangling THEN {f.m}
    ELSE {r \in [vaddr : Garbage(m, f.m, "vaddr"),
                 len : Garbage(m, f.m, "len"),
                 iova : Garbage(m, f.m, "iova")] :
             \A fld \in {"vaddr", "len", "iova"} \ flds : r[fld] = f.m[fld]}

\* a call returns
ThrDone(f, rc, errno) == [f EXCEPT !.pc = "done", !.rc = rc, !.errno = errno]

\* one step of vfio_map_vaddr; rd is what the read of *m yields, memok
\* whether znew_t succeeds and lvl the level random_level() draws
vfio_map_vaddr_step(c, f, dmaok, memok, lvl, rd) ==
    CASE f.pc = "m_find" ->
           \* iova_map_find_path, under the lock of the index
           Let(iommu_find_mapping(c.map, f.vaddr), LAMBDA n :
               [ctx |-> c,
                f |-> IF n # NULL
                      THEN [f EXCEPT !.pc = "m_read", !.found = TRUE,
                                     !.m = Mapping(c.map, n)]
                      ELSE [f EXCEPT !.pc = "m_alloc"]])
      [] f.pc = "m_read" ->
           \* iommu_vaddr_to_iova reads m->iova and m->vaddr
           [ctx |-> c,
            f |-> ThrDone([f EXCEPT !.iova = rd.iova + (f.vaddr - rd.vaddr)],
                          0, 0)]
      [] f.pc = "m_alloc" ->
           \* iommu_get_iova, under the lock of the allocator
           Let(iommu_get_iova(c.iommu, f.len), LAMBDA a :
               IF a.rc # 0
               THEN [ctx |-> c, f |-> ThrDone(f, -1, a.errno)]
               ELSE [ctx |-> Ctx(c.map, a.iommu, c.dma),
                     f |-> [f EXCEPT !.pc = "m_dma", !.iova = a.iova]])
      [] f.pc = "m_dma" ->
           Let(iommu_map_dma(c.dma, f.vaddr, f.len, f.iova, dmaok), LAMBDA d :
               IF d.rc # 0
               THEN [ctx |-> c, f |-> ThrDone(f, -1, EIO)]
               ELSE [ctx |-> Ctx(c.map, c.iommu, d.dma),
                     f |-> [f EXCEPT !.pc = "m_add"]])
      [] f.pc = "m_add" ->
           \* iova_map_add, under the lock of the index
           Let(iommu_add_mapping(c.map, f.vaddr, f.len, f.iova, lvl, memok),
               LAMBDA i :
               [ctx |-> Ctx(i.map, c.iommu, c.dma),
                f |-> ThrDone(f, i.rc, i.errno)])

\* one step of vfio_unmap_vaddr; rd is what the read of *m yields
vfio_unmap_vaddr_step(c, f, dmaok, rd) ==
    CASE f.pc = "u_find" ->
           \* iova_map_find_path, under the lock of the index
           Let(iommu_find_mapping(c.map, f.vaddr), LAMBDA n :
               [ctx |-> c,
                f |-> IF n # NULL
                      THEN [f EXCEPT !.pc = "u_dma", !.found = TRUE,
                                     !.m = Mapping(c.map, n)]
                      ELSE ThrDone(f, 0, 0)])
      [] f.pc = "u_dma" ->
           \* DMA_UNMAP of m->len, m->iova
           Let(iommu_unmap_dma(c.dma, rd.len, rd.iova, dmaok), LAMBDA d :
               IF d.rc # 0
               THEN [ctx |-> c, f |-> ThrDone(f, -1, EIO)]
               ELSE [ctx |-> Ctx(c.map, c.iommu, d.dma),
                     f |-> [f EXCEPT !.pc = "u_remove"]])
      [] f.pc = "u_remove" ->
           \* iova_map_remove of m->vaddr, under the lock of the index; the
           \* call returns 0 and leaves the errno the remove set
           Let(iommu_remove_mapping(c.map, rd.vaddr), LAMBDA r :
               [ctx |-> Ctx(r.map, c.iommu, c.dma),
                f |-> ThrDone(f, 0, r.errno)])

\* atomic_dec_fetch(&iommu->nephemeral) == 0 as one step of a call: the
\* call goes on to pc recycle when the counter reached 0 and returns rc
\* otherwise
ephemeral_dec_step(c, f, recycle, rc, errno) ==
    Let([c.iommu EXCEPT !.nephemeral = @ - 1], LAMBDA io :
        [ctx |-> Ctx(c.map, io, c.dma),
         f |-> IF io.nephemeral = 0
               THEN [f EXCEPT !.pc = recycle, !.zero = TRUE, !.rc = rc,
                              !.errno = errno]
               ELSE ThrDone(f, rc, errno)])

\* vfio_iommu_recycle_ephemeral_iovas as one step of a call
ephemeral_recycle_step(c, f) ==
    [ctx |-> Ctx(c.map, iommu_recycle_ephemeral_iovas(c.iommu), c.dma),
     f |-> ThrDone(f, f.rc, f.errno)]

\* one step of vfio_map_vaddr_ephemeral
vfio_map_vaddr_ephemeral_step(c, f, dmaok) ==
    CASE f.pc = "e_alloc" ->
           \* ephemeral_allocate, under the lock of the allocator
           Let(iommu_allocate_ephemeral_iova(c.iommu, f.len), LAMBDA a :
               IF a.rc # 0
               THEN [ctx |-> c, f |-> ThrDone(f, -1, a.errno)]
               ELSE [ctx |-> Ctx(c.map, a.iommu, c.dma),
                     f |-> [f EXCEPT !.pc = "e_dma", !.iova = a.iova]])
      [] f.pc = "e_dma" ->
           Let(iommu_map_dma(c.dma, f.vaddr, f.len, f.iova, dmaok), LAMBDA d :
               IF d.rc # 0
               THEN [ctx |-> c, f |-> [f EXCEPT !.pc = "e_dec"]]
               ELSE [ctx |-> Ctx(c.map, c.iommu, d.dma),
                     f |-> ThrDone(f, 0, 0)])
      [] f.pc = "e_dec" -> ephemeral_dec_step(c, f, "e_recycle", -1, EIO)
      [] f.pc = "e_recycle" -> ephemeral_recycle_step(c, f)

\* one step of vfio_unmap_ephemeral_iova: DMA_UNMAP, then the release as
\* vfio_map_vaddr_ephemeral does it
vfio_unmap_ephemeral_iova_step(c, f, dmaok) ==
    CASE f.pc = "x_dma" ->
           Let(iommu_unmap_dma(c.dma, f.len, f.iova, dmaok), LAMBDA d :
               IF d.rc # 0
               THEN [ctx |-> c, f |-> ThrDone(f, -1, EIO)]
               ELSE [ctx |-> Ctx(c.map, c.iommu, d.dma),
                     f |-> [f EXCEPT !.pc = "x_dec"]])
      [] f.pc = "x_dec" -> ephemeral_dec_step(c, f, "x_recycle", 0, 0)
      [] f.pc = "x_recycle" -> ephemeral_recycle_step(c, f)

(***************************************************************************)
(* The admin queue pair.  q is                                             *)
(*   q.free   the free list of the request pool: the cids of the free      *)
(*            slots, the top of the list first                             *)
(*   q.sq     the commands the controller has fetched and not completed,   *)
(*            by the cid they were stamped with                            *)
(*   q.cq     the CQEs the controller posted that the host has not         *)
(*            consumed, oldest first; a CQE is [cid, sfp]                  *)
(*   q.aer    the cids of the slots nvme_aer took, in the order taken      *)
(*   q.aerq   the slot of the nvme_aer call that has not submitted its     *)
(*            command yet, NULL when there is none                         *)
(*   q.one    the frame of each thread's nvme_oneshot call                 *)
(*   q.last   the frame of the nvme_oneshot call that returned last        *)
(***************************************************************************)
Cids == 0 .. (SqDepth - 2)

NoCqe == [cid |-> NULL, sfp |-> 0]

\* the locals of nvme_oneshot, what errno holds, and a record of what the
\* call did: pc is "idle" (no call), where the call is ("acquire", "map",
\* "exec", "spin": in the wait loop, "unmap", "release_rq") or "done"
\* (returned); call is the frame of the context call it is in and unmaprc
\* what its vfio_unmap_ephemeral_iova call returned
Frame0 ==
    [pc |-> "idle", rq |-> NULL, buf |-> NULL, len |-> 0, iova |-> 0,
     savederrno |-> 0, ret |-> 0, errno |-> 0, cqe |-> NoCqe,
     mapped |-> FALSE, spurious |-> FALSE, released |-> 0, unmapped |-> 0,
     unmaprc |-> 0, dfree |-> 0, dneph |-> 0, call |-> ThrFrame0]

\* what a call that returned leaves in q.last: its slot, its result and
\* the record of what it did
Returns(f) ==
    [rq |-> f.rq, ret |-> f.ret, cqe |-> f.cqe, mapped |-> f.mapped,
     spurious |-> f.spurious, released |-> f.released,
     unmapped |-> f.unmapped, unmaprc |-> f.unmaprc, dfree |-> f.dfree,
     dneph |-> f.dneph]

\* the arguments and locals of nvme_cq_wait_cqes and what it returned: pc
\* is "idle" (no call yet), "get" (in the loop of nvme_cq_get_cqes), "wait"
\* (in the timed loop) or "done" (returned); n0 is the n of the call and
\* reaped the number of CQEs the call consumed
Wait0 ==
    [pc |-> "idle", n0 |-> 0, n |-> 0, timeout_ns |-> 0, timeout |-> 0,
     reaped |-> 0, ret |-> 0, errno |-> 0]

\* the request pool holds sq_depth - 1 slots; q.ticks is the tick counter
\* get_ticks() reads and q.wait the frame of the nvme_cq_wait_cqes call
nvme_init ==
    [free |-> [i \in 1 .. (SqDepth - 1) |-> i - 1],
     sq |-> {}, cq |-> <<>>, aer |-> <<>>, aerq |-> NULL,
     one |-> [t \in Threads |-> Frame0], last |-> Returns(Frame0),
     ticks |-> 0, wait |-> Wait0]

\* acquire_rq: pop a slot from the free list; none, with Busy, when it is
\* empty
nvme_rq_acquire_atomic(q) ==
    IF q.free = <<>> THEN [q |-> q, rq |-> NULL, errno |-> EBUSY]
    ELSE [q |-> [q EXCEPT !.free = Tail(@)], rq |-> Head(q.free),
          errno |-> 0]

\* release: push the slot on the free list
nvme_rq_release_atomic(q, rq) == [q EXCEPT !.free = <<rq>> \o @]

\* submit: the command is stamped with the slot's cid and handed to the
\* controller
nvme_rq_exec(q, rq) == [q EXCEPT !.sq = @ \cup {rq}]

\* nvme_sq_exec: the command goes out with the cid the caller put in it
nvme_sq_exec(q, cid) == [q EXCEPT !.sq = @ \cup {cid}]

\* map_prp: fails when the slot's PRP list buffer is too small (prpok)
nvme_rq_map_prp(len, iova, prpok) ==
    IF prpok THEN [rc |-> 0, errno |-> 0] ELSE [rc |-> -1, errno |-> EINVAL]

\* the status test without the shift: the phase bit counts as status
nvme_set_errno_from_cqe_unshifted(cqe) ==
    LET errno == IF cqe.sfp # 0 THEN EIO ELSE 0
    IN  [rc |-> IF errno # 0 THEN -1 ELSE 0, errno |-> errno]

\* nvme_set_errno_from_cqe; cqe.sfp is the 16 bit status word of the CQE:
\* the phase bit in bit 0, the status field in bits 1 to 15
nvme_set_errno_from_cqe(cqe) ==
    LET errno == IF cqe.sfp \div 2 # 0 THEN EIO ELSE 0
    IN  [rc |-> IF errno # 0 THEN -1 ELSE 0, errno |-> errno]

\* poll_one: the CQE at the head of the completion queue, consumed
nvme_cq_get_cqe(q) ==
    IF q.cq = <<>> THEN [q |-> q, cqe |-> NoCqe]
    ELSE [q |-> [q EXCEPT !.cq = Tail(@)], cqe |-> Head(q.cq)]

\* nvme_cq_get_cqes for n CQEs that have been posted (it polls until then)
RECURSIVE nvme_cq_get_cqes(_, _)
nvme_cq_get_cqes(q, n) ==
    Let(nvme_cq_get_cqe(q), LAMBDA g :
        IF n - 1 > 0
        THEN Let(nvme_cq_get_cqes(g.q, n - 1), LAMBDA more :
                 [q |-> more.q, cqes |-> <<g.cqe>> \o more.cqes])
        ELSE [q |-> g.q, cqes |-> <<g.cqe>>])

\* wait_one without a deadline: take one CQE; a cid that is not the slot's
\* is a spurious completion (EAGAIN)
nvme_rq_spin(q, rq) ==
    Let(nvme_cq_get_cqes(q, 1), LAMBDA g :
        IF g.cqes[1].cid # rq
        THEN [q |-> g.q, cqe |-> g.cqes[1], rc |-> -1, errno |-> EAGAIN]
        ELSE [q |-> g.q, cqe |-> g.cqes[1],
              rc |-> nvme_set_errno_from_cqe(g.cqes[1]).rc,
              errno |-> nvme_set_errno_from_cqe(g.cqes[1]).errno])

\* nvme_rq_acquire_atomic in nvme_aer: the slot is taken, and q.aerq holds
\* it until the command is submitted
nvme_aer_acquire(q) ==
    Let(nvme_rq_acquire_atomic(q), LAMBDA a :
        IF a.rq = NULL THEN [q |-> q, rc |-> -1, errno |-> EBUSY]
        ELSE [q |-> [a.q EXCEPT !.aer = Append(@, a.rq), !.aerq = a.rq],
              rc |-> 0, errno |-> 0])

\* the submission of nvme_aer giving the slot back once the command is
\* submitted
nvme_aer_exec_release(q) ==
    nvme_rq_release_atomic(
        [nvme_sq_exec(q, q.aerq + NVME_CID_AER) EXCEPT !.aerq = NULL],
        q.aerq)

\* the submission of nvme_aer: the command goes out with the cid of the
\* slot and the AER bit, and the slot stays taken
nvme_aer_exec(q) ==
    [nvme_sq_exec(q, q.aerq + NVME_CID_AER) EXCEPT !.aerq = NULL]

\* nvme_aer
nvme_aer(q) ==
    Let(nvme_aer_acquire(q), LAMBDA a :
        IF a.rc # 0 THEN a
        ELSE [q |-> nvme_aer_exec(a.q), rc |-> 0, errno |-> 0])

\* the label release_rq reached twice: the slot is pushed a second time
nvme_oneshot_release_twice(c, q, f) ==
    [ctx |-> c,
     q |-> nvme_rq_release_atomic(nvme_rq_release_atomic(q, f.rq), f.rq),
     f |-> [f EXCEPT !.pc = "done", !.released = @ + 2]]

\* nvme_oneshot at the label release_rq: the slot is released and the call
\* returns
nvme_oneshot_release_rq(c, q, f) ==
    [ctx |-> c, q |-> nvme_rq_release_atomic(q, f.rq),
     f |-> [f EXCEPT !.pc = "done", !.released = @ + 1]]

\* nvme_oneshot goes to the label unmap: the unmap_ephemeral call when
\* there is a buffer, the label release_rq when there is none
nvme_oneshot_unmap(f) ==
    IF f.buf # NULL
    THEN [f EXCEPT !.pc = "unmap",
                   !.call = [ThrCall("x_dma", "unmap_ephemeral", 0, f.len)
                                EXCEPT !.iova = f.iova]]
    ELSE [f EXCEPT !.pc = "release_rq"]

\* nvme_rq_acquire_atomic in nvme_oneshot
nvme_oneshot_acquire(c, q, f) ==
    Let(nvme_rq_acquire_atomic(q), LAMBDA a :
    IF a.rq = NULL
    THEN [ctx |-> c, q |-> q,
          f |-> [f EXCEPT !.pc = "done", !.ret = -1, !.errno = a.errno]]
    ELSE [ctx |-> c, q |-> a.q,
          f |-> IF f.buf # NULL
                THEN [f EXCEPT !.rq = a.rq, !.pc = "map",
                               !.call = ThrCall("e_alloc", "map_ephemeral",
                                                f.buf, f.len)]
                ELSE [f EXCEPT !.rq = a.rq, !.pc = "exec"]])

\* one step of the vfio_map_vaddr_ephemeral call of nvme_oneshot, and what
\* nvme_oneshot does with its result when it returns
nvme_oneshot_map(c, q, f, dmaok) ==
    Let(vfio_map_vaddr_ephemeral_step(c, f.call, dmaok), LAMBDA s :
    [ctx |-> s.ctx, q |-> q,
     f |-> IF s.f.pc # "done" THEN [f EXCEPT !.call = s.f]
           ELSE IF s.f.rc # 0
           THEN [f EXCEPT !.call = ThrFrame0, !.ret = s.f.rc,
                          !.errno = s.f.errno, !.pc = "release_rq"]
           ELSE [f EXCEPT !.call = ThrFrame0, !.mapped = TRUE,
                          !.iova = s.f.iova, !.pc = "exec"]])

\* nvme_rq_map_prp and nvme_rq_exec with a failed map_prp going to the
\* label release_rq
nvme_oneshot_exec_prp_leak(c, q, f, prpok) ==
    Let(IF f.buf # NULL THEN nvme_rq_map_prp(f.len, f.iova, prpok)
        ELSE [rc |-> 0, errno |-> 0], LAMBDA pr :
    IF pr.rc # 0
    THEN [ctx |-> c, q |-> q,
          f |-> [f EXCEPT !.ret = pr.rc, !.savederrno = pr.errno,
                          !.errno = pr.errno, !.pc = "release_rq"]]
    ELSE [ctx |-> c, q |-> nvme_rq_exec(q, f.rq),
          f |-> [f EXCEPT !.pc = "spin"]])

\* nvme_rq_map_prp, when there is a buffer, and nvme_rq_exec: the command is
\* built in the slot the call owns and handed to the controller
nvme_oneshot_exec(c, q, f, prpok) ==
    Let(IF f.buf # NULL THEN nvme_rq_map_prp(f.len, f.iova, prpok)
        ELSE [rc |-> 0, errno |-> 0], LAMBDA pr :
    IF pr.rc # 0
    THEN [ctx |-> c, q |-> q,
          f |-> nvme_oneshot_unmap([f EXCEPT !.ret = pr.rc,
                                             !.savederrno = pr.errno,
                                             !.errno = pr.errno])]
    ELSE [ctx |-> c, q |-> nvme_rq_exec(q, f.rq),
          f |-> [f EXCEPT !.pc = "spin"]])

\* one pass of the wait loop that gives up on a spurious CQE as on an error
nvme_oneshot_wait_no_retry(c, q, f) ==
    Let(nvme_rq_spin(q, f.rq), LAMBDA w :
    [ctx |-> c, q |-> w.q,
     f |-> nvme_oneshot_unmap(
               [f EXCEPT !.cqe = w.cqe, !.errno = w.errno,
                         !.savederrno = IF w.rc < 0 THEN w.errno ELSE @,
                         !.ret = IF w.rc < 0 THEN -1 ELSE @])])

\* one pass of the wait loop of nvme_oneshot over a posted CQE.  The local
\* cqe is written by every pass before it is read, so the frame keeps it
\* from the last pass only.
nvme_oneshot_wait(c, q, f) ==
    Let(nvme_rq_spin(q, f.rq), LAMBDA w :
    [ctx |-> c, q |-> w.q,
     f |-> IF w.rc < 0 /\ w.errno = EAGAIN
           THEN [f EXCEPT !.errno = w.errno, !.spurious = TRUE]
           ELSE nvme_oneshot_unmap(
                    [f EXCEPT !.cqe = w.cqe, !.errno = w.errno,
                              !.savederrno = IF w.rc < 0 THEN w.errno ELSE @,
                              !.ret = IF w.rc < 0 THEN -1 ELSE @])])

\* one step of the vfio_unmap_ephemeral_iova call of nvme_oneshot, and what
\* nvme_oneshot does with its result when it returns
nvme_oneshot_unmap_step(c, q, f, unmapok) ==
    Let(vfio_unmap_ephemeral_iova_step(c, f.call, unmapok), LAMBDA s :
    [ctx |-> s.ctx, q |-> q,
     f |-> IF s.f.pc # "done" THEN [f EXCEPT !.call = s.f]
           ELSE [f EXCEPT !.call = ThrFrame0, !.unmapped = @ + 1,
                          !.unmaprc = s.f.rc,
                          !.ret = IF s.f.rc # 0 THEN -1 ELSE @,
                          !.errno = IF s.f.rc # 0 THEN f.savederrno ELSE @,
                          !.pc = "release_rq"]])

\* one step of nvme_oneshot: an atomic operation on the request pool, a step
\* of a context call, the submission, or a pass of the wait loop
nvme_oneshot_step(c, q, f, dmaok, prpok, unmapok) ==
    CASE f.pc = "acquire" -> nvme_oneshot_acquire(c, q, f)
      [] f.pc = "map" -> nvme_oneshot_map(c, q, f, dmaok)
      [] f.pc = "exec" -> nvme_oneshot_exec(c, q, f, prpok)
      [] f.pc = "spin" -> nvme_oneshot_wait(c, q, f)
      [] f.pc = "unmap" -> nvme_oneshot_unmap_step(c, q, f, unmapok)
      [] f.pc = "release_rq" -> nvme_oneshot_release_rq(c, q, f)

\* the steps of a call from s = [ctx, q, f] up to its wait loop or its
\* return, no other thread taking a step
RECURSIVE nvme_oneshot_run(_, _, _, _)
nvme_oneshot_run(s, dmaok, prpok, unmapok) ==
    IF s.f.pc \in {"spin", "done"} THEN s
    ELSE nvme_oneshot_run(nvme_oneshot_step(s.ctx, s.q, s.f, dmaok, prpok,
                                            unmapok),
                          dmaok, prpok, unmapok)

\* nvme_oneshot up to the wait loop: acquire, map_ephemeral, map_prp, submit
nvme_oneshot(c, q, buf, len, dmaok, prpok, unmapok) ==
    nvme_oneshot_run([ctx |-> c, q |-> q,
                      f |-> [Frame0 EXCEPT !.pc = "acquire", !.buf = buf,
                                           !.len = len]],
                     dmaok, prpok, unmapok)

\* one pass of the wait loop of nvme_oneshot over a posted CQE, and, when
\* the loop ends, the rest of the call
nvme_oneshot_spin(c, q, f, unmapok) ==
    Let(nvme_oneshot_step(c, q, f, TRUE, TRUE, unmapok), LAMBDA s :
        nvme_oneshot_run(s, TRUE, TRUE, unmapok))

\* the tick frequency of the platform, in Hz
vfn_ticks_freq == 1000000

\* one pass of the do-while loop of nvme_cq_get_cqes: poll, count a CQE
\* that was there, and loop while n > 0
nvme_cq_get_cqes_pass(q, w) ==
    Let(nvme_cq_get_cqe(q), LAMBDA g :
    Let(IF g.cqe = NoCqe THEN w
        ELSE [w EXCEPT !.n = @ - 1, !.reaped = @ + 1], LAMBDA v :
    IF v.n > 0 THEN [q |-> g.q, w |-> v]
    ELSE [q |-> g.q, w |-> [v EXCEPT !.pc = "done", !.ret = 0]]))

\* the timed loop with the deadline left out of its condition
nvme_cq_wait_cqes_pass_no_deadline(q, w, ticks) ==
    Let(nvme_cq_get_cqe(q), LAMBDA g :
    Let(IF g.cqe = NoCqe THEN w
        ELSE [w EXCEPT !.n = @ - 1, !.reaped = @ + 1], LAMBDA v :
    IF v.n > 0 THEN [q |-> g.q, w |-> v]
    ELSE [q |-> g.q,
          w |-> [v EXCEPT !.pc = "done", !.ret = v.n,
                          !.errno = IF v.n > 0 THEN ETIMEDOUT ELSE @]]))

\* one pass of the timed do-while loop of nvme_cq_wait_cqes and, when the
\* loop ends, the rest of the call; ticks is what get_ticks() returns
nvme_cq_wait_cqes_pass(q, w, ticks) ==
    Let(nvme_cq_get_cqe(q), LAMBDA g :
    Let(IF g.cqe = NoCqe THEN w
        ELSE [w EXCEPT !.n = @ - 1, !.reaped = @ + 1], LAMBDA v :
    IF v.n > 0 /\ ticks < v.timeout THEN [q |-> g.q, w |-> v]
    ELSE [q |-> g.q,
          w |-> [v EXCEPT !.pc = "done", !.ret = v.n,
                          !.errno = IF v.n > 0 THEN ETIMEDOUT ELSE @]]))

\* nvme_cq_wait_cqes up to its loop: without a timeout the loop is the one
\* of nvme_cq_get_cqes, with a timeout the deadline is computed
nvme_cq_wait_cqes(n, timeout_ns, ticks) ==
    IF timeout_ns = 0
    THEN [Wait0 EXCEPT !.pc = "get", !.n0 = n, !.n = n]
    ELSE [Wait0 EXCEPT !.pc = "wait", !.n0 = n, !.n = n,
                       !.timeout_ns = timeout_ns,
                       !.timeout = ticks + (timeout_ns * 1000)
                                           * (vfn_ticks_freq \div 1000000)]

(***************************************************************************)
(* vfio_open and vfio_close.  The process has a table of open descriptors; *)
(* open() hands out the lowest free number.  env holds what the kernel     *)
(* answers to the calls of one vfio_open.                                  *)
(***************************************************************************)
\* the descriptors a process starts with
StdFds == {0, 1, 2}

\* open(): the lowest free descriptor, -1 when the call fails
open(fds, ok) ==
    IF ok THEN CHOOSE fd \in 0 .. Cardinality(fds) :
                   /\ fd \notin fds
                   /\ \A g \in 0 .. (fd - 1) : g \in fds
    ELSE -1

\* close(): the descriptor is free again; closing a number that is not open
\* fails with EBADF and changes nothing.  errno is the errno before the call
\* and what the call leaves in it.
close(fds, fd, errno) ==
    [fds |-> fds \ {fd}, errno |-> IF fd \in fds THEN errno ELSE EBADF]

\* the errno values the kernel sets when a call fails
Errnos == {ENOENT, EBUSY}

\* what the kernel answers to the calls of one vfio_open
OpenEnvs ==
    [open_container : BOOLEAN,
     api_version    : {VFIO_API_VERSION, VFIO_API_VERSION + 1, -1},
     type1          : {0, 1},
     open_group     : BOOLEAN,
     get_status     : {0, -1},
     viable         : BOOLEAN,
     set_container  : {0, -1},
     set_iommu      : {0, -1},
     get_info       : {0, -1},
     argsz          : {InfoSize, InfoSize + CapSize},
     get_info2      : {0, -1},
     errno          : Errnos]

\* the number of answers of env that make a call of vfio_open fail
Failures(env) ==
    Cardinality({k \in 1 .. 10 :
        CASE k = 1 -> ~env.open_container
          [] k = 2 -> env.api_version # VFIO_API_VERSION
          [] k = 3 -> env.type1 = 0
          [] k = 4 -> ~env.open_group
          [] k = 5 -> env.get_status # 0
          [] k = 6 -> ~env.viable
          [] k = 7 -> env.set_container # 0
          [] k = 8 -> env.set_iommu # 0
          [] k = 9 -> env.get_info # 0
          [] k = 10 -> env.get_info2 # 0})

\* the answers a vfio_open call gets to see: it asks for none after the
\* first that makes it fail
OpenRuns == {env \in OpenEnvs : Failures(env) <= 1}

\* struct vfio_state after memset; opened is whether the object holds an
\* open group
vfio_state0 == [container |-> 0, group |-> 0, device |-> 0, opened |-> FALSE]

\* what a vfio_open leaves: the descriptor table, vfio->container and
\* vfio->group, the return code, the errno the call set (0 when it set
\* none), and the calls it made in order
Opened(fds, container, group, rc, errno, calls) ==
    [fds |-> fds, container |-> container, group |-> group, rc |-> rc,
     errno |-> errno, calls |-> calls]

\* the label err_close_container of vfio_open
err_close_container(fds, container, group, errno, calls) ==
    Opened(close(fds, container, errno).fds, container, group, -1,
           close(fds, container, errno).errno,
           Append(calls, "close_container"))

\* the label err of vfio_open that does not close the group
err_keeps_group(fds, container, group, errno, calls) ==
    err_close_container(fds, container, group, errno, calls)

\* the label err of vfio_open
err(fds, container, group, errno, calls) ==
    err_close_container(close(fds, group, errno).fds, container, group,
                        close(fds, group, errno).errno,
                        Append(calls, "close_group"))

\* vfio_open from the group open on; c is the container descriptor
vfio_open_group(fds, env, c, calls) ==
    Let(open(fds, env.open_group), LAMBDA g :
    Let(Append(calls, "open_group"), LAMBDA c4 :
    IF g < 0 THEN err_close_container(fds, c, g, env.errno, c4)
    ELSE
    Let(fds \cup {g}, LAMBDA f :
    Let(Append(c4, "group_get_status"), LAMBDA c5 :
    IF env.get_status # 0 THEN err(f, c, g, env.errno, c5)
    ELSE IF ~env.viable THEN err(f, c, g, EINVAL, c5)
    ELSE
    Let(Append(c5, "group_set_container"), LAMBDA c6 :
    IF env.set_container # 0 THEN err(f, c, g, env.errno, c6)
    ELSE
    Let(Append(c6, "set_iommu"), LAMBDA c7 :
    IF env.set_iommu # 0 THEN err(f, c, g, env.errno, c7)
    ELSE
    Let(Append(c7, "iommu_get_info"), LAMBDA c8 :
    IF env.get_info # 0 THEN err(f, c, g, env.errno, c8)
    ELSE IF env.argsz > InfoSize
    THEN Let(Append(c8, "iommu_get_info"), LAMBDA c9 :
         IF env.get_info2 # 0 THEN err(f, c, g, env.errno, c9)
         ELSE Opened(f, c, g, 0, 0, c9))
    ELSE Opened(f, c, g, 0, 0, c8))))))))

\* vfio_open
vfio_open(fds, env) ==
    Let(open(fds, env.open_container), LAMBDA c :
    Let(<<"open_container">>, LAMBDA c1 :
    IF c < 0 THEN Opened(fds, c, 0, -1, env.errno, c1)
    ELSE
    Let(fds \cup {c}, LAMBDA f :
    Let(Append(c1, "get_api_version"), LAMBDA c2 :
    IF env.api_version # VFIO_API_VERSION
    THEN err_close_container(f, c, 0,
             IF env.api_version < 0 THEN env.errno ELSE 0, c2)
    ELSE
    Let(Append(c2, "check_extension"), LAMBDA c3 :
    IF env.type1 = 0 THEN err_close_container(f, c, 0, 0, c3)
    ELSE vfio_open_group(f, env, c, c3))))))

\* vfio_close: close(vfio->device), close(vfio->group),
\* close(vfio->container); the flags of the zeroed device_info ask for no
\* reset.  The call returns nothing; errno is what it leaves when entered
\* with errno 0.
vfio_close(fds, st) ==
    Let(close(fds, st.device, 0), LAMBDA d :
    Let(close(d.fds, st.group, d.errno), LAMBDA g :
        close(g.fds, st.container, g.errno)))

\* the vfio_state objects of the process
VfioStates == 1 .. NVfio

vfio_init == [fds |-> StdFds, st |-> [i \in VfioStates |-> vfio_state0]]

(***************************************************************************)
(* The inputs of the calls.                                                *)
(***************************************************************************)
Keys == 0 .. MaxKey

\* the buffers callers map: page aligned addresses
VAddrs == {p * VFN_PAGESIZE : p \in 0 .. (MaxVPage - 1)}
\* the lengths callers pass: whole pages, and one that is not page aligned
Lens == {k * VFN_PAGESIZE : k \in 0 .. MaxLenPages} \cup {VFN_PAGESIZE \div 2}
\* the buffer of a one-shot command
EphBuf == MaxVPage * VFN_PAGESIZE
\* the addresses translate is asked for
TKeys ==
    {p * VFN_PAGESIZE + o :
        p \in 0 .. (MaxVPage + MaxLenPages), o \in {0, 8, VFN_PAGESIZE - 1}}

InitIndex ==
    /\ map = iova_map_init
    /\ iommu = iommu_init
    /\ dma = {}
    /\ eph = {}
    /\ live = {}
    /\ ret = NoCall
    /\ nvme = nvme_init
    /\ vfio = vfio_init
    /\ thr = thr_init
    /\ ncalls = 0
    /\ wmark = 0

\* insert(vaddr, len, iova): a range that meets no present mapping, or a
\* vaddr that lies in a present mapping (which the index must refuse); the
\* iova tells the inserted mappings apart
IndexInsert ==
    \E vaddr \in Keys, len \in 0 .. MaxLen, lvl \in random_level,
       memok \in BOOLEAN :
      \E iova \in {IOVA_MIN + vaddr} :
        /\ Cardinality(live) < MaxEntries
        /\ vaddr + len <= MaxKey + 1
        /\ \/ \A e \in live : ~Overlap(vaddr, len, e.vaddr, e.len)
           \/ \E e \in live : Contains(e, vaddr)
        /\ \E r \in {iommu_add_mapping(map, vaddr, len, iova, lvl, memok)} :
               /\ map' = r.map
               /\ live' = IF r.rc = 0
                          THEN live \cup {[vaddr |-> vaddr, len |-> len,
                                           iova |-> iova]}
                          ELSE live
               /\ ret' = Returned("insert", r.rc, r.errno)
               /\ UNCHANGED <<iommu, dma, eph, nvme, vfio, thr, ncalls, wmark>>

\* remove(vaddr)
IndexRemove ==
    \E vaddr \in Keys :
        \E r \in {iova_map_remove(map, vaddr)} :
            /\ map' = r.map
            /\ live' = IF r.rc = 0
                       THEN {e \in live : ~Contains(e, vaddr)}
                       ELSE live
            /\ ret' = Returned("remove", r.rc, r.errno)
            /\ UNCHANGED <<iommu, dma, eph, nvme, vfio, thr, ncalls, wmark>>

NextIndex == IndexInsert \/ IndexRemove

SpecIndex == InitIndex /\ [][NextIndex]_vars

(***************************************************************************)
(* SpecIndexAny: the raw index under insert and remove calls with any      *)
(* arguments.                                                              *)
(***************************************************************************)
IndexInsertAny ==
    \E vaddr \in Keys, len \in 0 .. MaxLen, lvl \in random_level,
       memok \in BOOLEAN :
      \E iova \in {IOVA_MIN + vaddr} :
        /\ Len(map.list) < MaxEntries
        /\ vaddr + len <= MaxKey + 1
        /\ \E r \in {iommu_add_mapping(map, vaddr, len, iova, lvl, memok)} :
               /\ map' = r.map
               /\ live' = IF r.rc = 0
                          THEN live \cup {[vaddr |-> vaddr, len |-> len,
                                           iova |-> iova]}
                          ELSE live
               /\ ret' = Returned("insert", r.rc, r.errno)
               /\ UNCHANGED <<iommu, dma, eph, nvme, vfio, thr, ncalls, wmark>>

\* remove(vaddr): the mapping that find reaches is the one removed
IndexRemoveAny ==
    \E vaddr \in Keys :
        \E r \in {iova_map_remove(map, vaddr)} :
            /\ map' = r.map
            /\ live' = IF r.rc = 0
                       THEN live \ {Mapping(map,
                                            iommu_find_mapping(map, vaddr))}
                       ELSE live
            /\ ret' = Returned("remove", r.rc, r.errno)
            /\ UNCHANGED <<iommu, dma, eph, nvme, vfio, thr, ncalls, wmark>>

NextIndexAny == IndexInsertAny \/ IndexRemoveAny

SpecIndexAny == InitIndex /\ [][NextIndexAny]_vars

(***************************************************************************)
(* SpecClear: the index of SpecIndex with a clear call, after which the    *)
(* index is not used again (iommu_destroy frees it).                       *)
(***************************************************************************)
IndexInUse == ret.op \notin {"clear", "clear aborted"}

InsertBeforeClear == IndexInUse /\ IndexInsert

RemoveBeforeClear == IndexInUse /\ IndexRemove

IndexClear ==
    \E fn \in BOOLEAN, ub \in FreeOutcomes :
        \E r \in {iova_map_clear_with(map, fn, ub)} :
            /\ IndexInUse
            /\ map' = r.map
            /\ live' = IF r.aborted THEN live ELSE {}
            /\ ret' = Returned(IF r.aborted THEN "clear aborted" ELSE "clear",
                               0, 0)
            /\ UNCHANGED <<iommu, dma, eph, nvme, vfio, thr, ncalls, wmark>>

NextClear == InsertBeforeClear \/ RemoveBeforeClear \/ IndexClear

SpecClear == InitIndex /\ [][NextClear]_vars

(***************************************************************************)
(* SpecOpen: a process that calls vfio_open on its NVfio vfio_state        *)
(* objects, in any state of the object, and vfio_close on the objects it   *)
(* opened.  MaxFds bounds the descriptor table.                            *)
(***************************************************************************)
VfioOpen ==
    \E i \in VfioStates, env \in OpenRuns :
        \E r \in {vfio_open(vfio.fds, env)} :
            /\ Cardinality(vfio.fds) + 2 <= MaxFds
            /\ vfio' = [fds |-> r.fds,
                        st |-> [vfio.st EXCEPT
                                   ![i] = [container |-> r.container,
                                           group |-> r.group, device |-> 0,
                                           opened |-> r.rc = 0]]]
            /\ ret' = Returned("vfio_open", r.rc, r.errno)
            /\ UNCHANGED <<map, iommu, dma, eph, live, nvme, thr,
                           ncalls, wmark>>

VfioClose ==
    \E i \in VfioStates :
        /\ vfio.st[i].opened
        /\ vfio' = [fds |-> vfio_close(vfio.fds, vfio.st[i]).fds,
                    st |-> [vfio.st EXCEPT ![i].opened = FALSE]]
        /\ ret' = Returned("vfio_close", 0,
                           vfio_close(vfio.fds, vfio.st[i]).errno)
        /\ UNCHANGED <<map, iommu, dma, eph, live, nvme, thr, ncalls, wmark>>

NextOpen == VfioOpen \/ VfioClose

SpecOpen == InitIndex /\ [][NextOpen]_vars

\* The representation of the skip list is sound for __iova_map_remove: the
\* unlinking loop, run on the path to any entry that find reaches, unlinks
\* the entry from every level it is linked on.
UnlinkIsComplete ==
    \A v \in Keys \cup TKeys :
        LET f == iova_map_find_path(map, v)
        IN  f.p # NULL =>
                RemoveLevels(map, f.path, f.p, 0) = map.list[f.p].top + 1

(***************************************************************************)
(* Spec: one IOMMU context under the map and unmap calls of NThreads       *)
(* threads, at most MaxCalls calls in all.  A call takes one step per      *)
(* critical section or ioctl, and the steps of the threads interleave.     *)
(***************************************************************************)
Init ==
    /\ map = iova_map_init
    /\ iommu = iommu_init
    /\ dma = {}
    /\ eph = {}
    /\ live = {}
    /\ ret = NoCall
    /\ nvme = nvme_init
    /\ vfio = vfio_init
    /\ thr = thr_init
    /\ ncalls = 0
    /\ wmark = 0

\* the frames the step s = [ctx, f] of thread t leaves: the frame of t, idle
\* again when the call returned, and the frames of the other threads, whose
\* pointer dangles when the step freed the entry it points to
ThrFrames(t, s) ==
    [u \in Threads |->
        IF u = t
        THEN IF s.f.pc = "done"
             THEN ThrFrame0
             ELSE s.f
        ELSE IF thr[u].found /\ thr[u].m \in Entries(map) \ Entries(s.ctx.map)
             THEN [thr[u] EXCEPT !.dangling = TRUE]
             ELSE thr[u]]

\* the watermark captured at the latest 0 -> 1 transition of nephemeral,
\* after a step that leaves the allocator io
Captured(io) ==
    IF iommu.nephemeral = 0 /\ io.nephemeral = 1
    THEN io.ephemeral_watermark ELSE wmark

\* what the step s = [ctx, f] of thread t leaves; held is the eph it leaves.
\* A mapping is live from the step that inserted it to the DMA_UNMAP that
\* removed it from the kernel.
LeavesThread(t, s, held) ==
    /\ map' = s.ctx.map
    /\ iommu' = s.ctx.iommu
    /\ dma' = s.ctx.dma
    /\ live' = (live \ (dma \ s.ctx.dma))
                   \cup (Entries(s.ctx.map) \ Entries(map))
    /\ eph' = held
    /\ thr' = ThrFrames(t, s)
    /\ ncalls' = IF thr[t].pc = "idle" THEN ncalls + 1 ELSE ncalls
    /\ wmark' = Captured(s.ctx.iommu)
    /\ ret' = IF s.f.pc = "done" THEN Returned(s.f.op, s.f.rc, s.f.errno)
              ELSE ret
    /\ UNCHANGED <<nvme, vfio>>

\* thread t may make a call
ThrIdle(t) == thr[t].pc = "idle" /\ ncalls < MaxCalls

\* thread t calls map(vaddr, len) with its arguments drawn from the given
\* sets: the call and its first step
ThrMapOf(t, VA, LN) ==
    \E vaddr \in VA, len \in LN :
        /\ ThrIdle(t)
        /\ \E s \in {vfio_map_vaddr_step(Ctx(map, iommu, dma),
                          ThrCall("m_find", "map", vaddr, len),
                          TRUE, TRUE, 0, NoMapping)} :
               LeavesThread(t, s, eph)

\* thread t calls unmap(vaddr): the call and its first step
ThrUnmapOf(t, VA) ==
    \E vaddr \in VA :
        /\ ThrIdle(t)
        /\ \E s \in {vfio_unmap_vaddr_step(Ctx(map, iommu, dma),
                          ThrCall("u_find", "unmap", vaddr, 0),
                          TRUE, NoMapping)} :
               LeavesThread(t, s, eph)

\* the next step of the map call of thread t: DMA_MAP and znew_t succeed or
\* fail, random_level() draws any level
ThrMapStepOf(t) ==
    \E dmaok \in BOOLEAN, memok \in BOOLEAN, lvl \in random_level,
       rd \in Reads(map, thr[t], {"vaddr", "iova"}) :
        /\ thr[t].pc \in {"m_read", "m_alloc", "m_dma", "m_add"}
        /\ thr[t].pc # "m_dma" => dmaok
        /\ thr[t].pc # "m_add" => memok /\ lvl = 0
        /\ thr[t].pc # "m_read" => rd = thr[t].m
        /\ \E s \in {vfio_map_vaddr_step(Ctx(map, iommu, dma), thr[t],
                                          dmaok, memok, lvl, rd)} :
               LeavesThread(t, s, eph)

\* the next step of the unmap call of thread t: DMA_UNMAP succeeds or fails
ThrUnmapStepOf(t) ==
    \E dmaok \in BOOLEAN,
       rd \in Reads(map, thr[t], IF thr[t].pc = "u_dma" THEN {"len", "iova"}
                                 ELSE {"vaddr"}) :
        /\ thr[t].pc \in {"u_dma", "u_remove"}
        /\ thr[t].pc # "u_dma" => dmaok
        /\ \E s \in {vfio_unmap_vaddr_step(Ctx(map, iommu, dma), thr[t],
                                            dmaok, rd)} :
               LeavesThread(t, s, eph)

\* Spec: every buffer, every length
Map == \E t \in Threads : ThrMapOf(t, VAddrs, Lens)

Unmap == \E t \in Threads : ThrUnmapOf(t, VAddrs)

MapStep == \E t \in Threads : ThrMapStepOf(t)

UnmapStep == \E t \in Threads : ThrUnmapStepOf(t)

Next == Map \/ Unmap \/ MapStep \/ UnmapStep

Spec == Init /\ [][Next]_vars

(***************************************************************************)
(* SpecEph: the context under the ephemeral and sticky calls of the        *)
(* threads.  The sticky calls map the first EphVPages buffers, the         *)
(* ephemeral calls map EphBuf and unmap the ephemeral IOVAs that callers   *)
(* hold: eph holds the ephemeral IOVAs handed out and not in an unmap      *)
(* call.                                                                   *)
(***************************************************************************)
StickyMap ==
    \E t \in Threads :
        ThrMapOf(t, {p * VFN_PAGESIZE : p \in 0 .. (EphVPages - 1)}, Lens)

StickyUnmap ==
    \E t \in Threads :
        ThrUnmapOf(t, {p * VFN_PAGESIZE : p \in 0 .. (EphVPages - 1)})

\* thread t calls map_ephemeral(vaddr, len): the call and its first step
ThrMapEphOf(t) ==
    \E len \in Lens :
        /\ ThrIdle(t)
        /\ \E s \in {vfio_map_vaddr_ephemeral_step(Ctx(map, iommu, dma),
                          ThrCall("e_alloc", "map_ephemeral", EphBuf,
                                  len),
                          TRUE)} :
               LeavesThread(t, s, eph)

\* thread t calls unmap_ephemeral(iova, len): the call and its first step
ThrUnmapEphOf(t) ==
    \E h \in eph, dmaok \in BOOLEAN :
        /\ ThrIdle(t)
        /\ \E s \in {vfio_unmap_ephemeral_iova_step(Ctx(map, iommu, dma),
                          [ThrCall("x_dma", "unmap_ephemeral", 0,
                                   h.len) EXCEPT !.iova = h.iova],
                          dmaok)} :
               LeavesThread(t, s, IF s.f.pc = "done" THEN eph
                                  ELSE eph \ {h})

\* the next step of the map_ephemeral call of thread t
ThrMapEphStepOf(t) ==
    \E dmaok \in BOOLEAN :
        /\ thr[t].pc \in {"e_dma", "e_dec", "e_recycle"}
        /\ thr[t].pc # "e_dma" => dmaok
        /\ \E s \in {vfio_map_vaddr_ephemeral_step(Ctx(map, iommu, dma),
                                                    thr[t], dmaok)} :
               LeavesThread(t, s,
                   IF thr[t].pc = "e_dma" /\ s.f.pc = "done"
                   THEN eph \cup {[iova |-> s.f.iova, len |-> s.f.len]}
                   ELSE eph)

\* the next step of the unmap_ephemeral call of thread t
ThrUnmapEphStepOf(t) ==
    /\ thr[t].pc \in {"x_dec", "x_recycle"}
    /\ \E s \in {vfio_unmap_ephemeral_iova_step(Ctx(map, iommu, dma),
                                                 thr[t], TRUE)} :
           LeavesThread(t, s, eph)

MapEphemeral == \E t \in Threads : ThrMapEphOf(t)

UnmapEphemeral == \E t \in Threads : ThrUnmapEphOf(t)

MapEphemeralStep == \E t \in Threads : ThrMapEphStepOf(t)

UnmapEphemeralStep == \E t \in Threads : ThrUnmapEphStepOf(t)

NextEph ==
    \/ StickyMap \/ StickyUnmap \/ MapStep \/ UnmapStep
    \/ MapEphemeral \/ UnmapEphemeral \/ MapEphemeralStep
    \/ UnmapEphemeralStep

SpecEph == Init /\ [][NextEph]_vars

(***************************************************************************)
(* SpecNvme: the admin queue pair under nvme_oneshot calls of NThreads     *)
(* threads, nvme_aer calls and a controller that completes the commands it *)
(* fetched in any order.  A thread's nvme_oneshot call takes one step per  *)
(* operation on the request pool, per step of a context call, for the      *)
(* submission and per CQE its wait loop consumes; the steps of the threads *)
(* interleave.                                                             *)
(***************************************************************************)
\* the status words the controller posts: success (phase bit set) and an
\* error status
Sfps == {1, 2}

\* the frame a step of nvme_oneshot leaves, with what the step did to the
\* free list and to nephemeral added to its record
Stepped(s) ==
    [s.f EXCEPT !.dfree = @ + Len(s.q.free) - Len(nvme.free),
                !.dneph = @ + s.ctx.iommu.nephemeral - iommu.nephemeral]

\* what the step of thread t leaves: s is [ctx, q, f]
LeavesOneshot(t, s) ==
    /\ map' = s.ctx.map
    /\ iommu' = s.ctx.iommu
    /\ dma' = s.ctx.dma
    /\ nvme' = IF s.f.pc = "done"
               THEN [s.q EXCEPT !.one[t] = Frame0,
                                !.last = Returns(Stepped(s))]
               ELSE [s.q EXCEPT !.one[t] = Stepped(s)]
    /\ ret' = IF s.f.pc = "done"
              THEN Returned("oneshot", s.f.ret, s.f.errno)
              ELSE ret
    /\ ncalls' = IF nvme.one[t].pc = "idle" THEN ncalls + 1 ELSE ncalls
    /\ wmark' = Captured(s.ctx.iommu)
    /\ UNCHANGED <<eph, live, vfio, thr>>

\* a thread calls nvme_oneshot(ctrl, sq, sqe, buf, len, cqe_copy): the call
\* and its first step
OneshotCall ==
    \E t \in Threads, buf \in {NULL, EphBuf},
       len \in {VFN_PAGESIZE, VFN_PAGESIZE \div 2} :
        /\ nvme.one[t].pc = "idle"
        /\ ncalls < MaxCalls
        /\ buf = NULL => len = VFN_PAGESIZE
        /\ \E s \in {nvme_oneshot_step(Ctx(map, iommu, dma), nvme,
                          [Frame0 EXCEPT !.pc = "acquire", !.buf = buf,
                                         !.len = len],
                          TRUE, TRUE, TRUE)} :
               LeavesOneshot(t, s)

\* the next step of the call of thread t outside its wait loop: DMA_MAP,
\* map_prp and DMA_UNMAP succeed or fail
OneshotStepOf(t) ==
    \E dmaok \in BOOLEAN, prpok \in BOOLEAN, unmapok \in BOOLEAN :
        /\ nvme.one[t].pc \in {"map", "exec", "unmap", "release_rq"}
        /\ ~(nvme.one[t].pc = "map" /\ nvme.one[t].call.pc = "e_dma")
               => dmaok
        /\ ~(nvme.one[t].pc = "exec" /\ nvme.one[t].buf # NULL) => prpok
        /\ ~(nvme.one[t].pc = "unmap" /\ nvme.one[t].call.pc = "x_dma")
               => unmapok
        /\ \E s \in {nvme_oneshot_step(Ctx(map, iommu, dma), nvme,
                                        nvme.one[t], dmaok, prpok, unmapok)} :
               LeavesOneshot(t, s)

OneshotStep == \E t \in Threads : OneshotStepOf(t)

\* the wait loop of a thread consumes the CQE at the head of the queue
OneshotSpinOf(t) ==
    /\ nvme.one[t].pc = "spin"
    /\ nvme.cq # <<>>
    /\ \E s \in {nvme_oneshot_step(Ctx(map, iommu, dma), nvme, nvme.one[t],
                                    TRUE, TRUE, TRUE)} :
           LeavesOneshot(t, s)

OneshotSpin == \E t \in Threads : OneshotSpinOf(t)

\* nvme_aer is called: its first step
Aer ==
    \E r \in {nvme_aer_acquire(nvme)} :
        /\ nvme.aerq = NULL
        /\ ncalls < MaxCalls
        /\ nvme' = r.q
        /\ ret' = IF r.rc # 0 THEN Returned("aer", r.rc, r.errno) ELSE ret
        /\ ncalls' = ncalls + 1
        /\ UNCHANGED <<map, iommu, dma, eph, live, vfio, thr, wmark>>

\* the nvme_aer call submits its command and returns
AerExec ==
    /\ nvme.aerq # NULL
    /\ nvme' = nvme_aer_exec(nvme)
    /\ ret' = Returned("aer", 0, 0)
    /\ UNCHANGED <<map, iommu, dma, eph, live, vfio, thr, ncalls, wmark>>

\* the controller completes a command it fetched
DevicePost ==
    \E cid \in nvme.sq, sfp \in Sfps :
        /\ nvme' = [nvme EXCEPT !.sq = @ \ {cid},
                                !.cq = Append(@, [cid |-> cid, sfp |-> sfp])]
        /\ UNCHANGED <<map, iommu, dma, eph, live, ret, vfio, thr,
                       ncalls, wmark>>

NextNvme ==
    OneshotCall \/ OneshotStep \/ OneshotSpin \/ Aer \/ AerExec \/ DevicePost

SpecNvme == Init /\ [][NextNvme]_vars

\* SpecNvmeFair: the controller completes every command it fetched, a
\* thread in a call keeps running, and a thread in its wait loop consumes a
\* CQE if CQEs keep being there
SpecNvmeFair ==
    /\ SpecNvme
    /\ WF_vars(DevicePost)
    /\ WF_vars(AerExec)
    /\ \A t \in Threads : WF_vars(OneshotStepOf(t))
    /\ \A t \in Threads : SF_vars(OneshotSpinOf(t))

(***************************************************************************)
(* SpecWait: a thread calls nvme_cq_wait_cqes on the admin completion      *)
(* queue while nvme_aer calls submit commands, the controller completes    *)
(* them and the tick counter advances.  The wait takes one step per pass   *)
(* of its loop.  SpecWaitFair adds that the waiting thread keeps running   *)
(* and that the tick counter keeps advancing.                              *)
(***************************************************************************)
WaitCall ==
    \E n \in 1 .. MaxWaitN, timeout_ns \in 0 .. MaxTimeoutNs :
        \E w \in {nvme_cq_wait_cqes(n, timeout_ns, nvme.ticks)} :
            /\ nvme.wait.pc \in {"idle", "done"}
            /\ w.timeout <= MaxTicks - TickQuantum
            /\ nvme' = [nvme EXCEPT !.wait = w]
            /\ UNCHANGED <<map, iommu, dma, eph, live, ret, vfio, thr,
                           ncalls, wmark>>

\* a pass of the loop the wait is in
WaitPass ==
    /\ nvme.wait.pc \in {"get", "wait"}
    /\ \E s \in {IF nvme.wait.pc = "get"
                  THEN nvme_cq_get_cqes_pass(nvme, nvme.wait)
                  ELSE nvme_cq_wait_cqes_pass(nvme, nvme.wait, nvme.ticks)} :
           /\ nvme' = [s.q EXCEPT !.wait = s.w]
           /\ ret' = IF s.w.pc = "done"
                     THEN Returned("wait", s.w.ret, s.w.errno)
                     ELSE ret
    /\ UNCHANGED <<map, iommu, dma, eph, live, vfio, thr, ncalls, wmark>>

Tick ==
    /\ nvme.ticks + TickQuantum <= MaxTicks
    /\ nvme' = [nvme EXCEPT !.ticks = @ + TickQuantum]
    /\ UNCHANGED <<map, iommu, dma, eph, live, ret, vfio, thr, ncalls, wmark>>

NextWait == WaitCall \/ WaitPass \/ Tick \/ Aer \/ AerExec \/ DevicePost

SpecWait == Init /\ [][NextWait]_vars

SpecWaitFair ==
    SpecWait /\ WF_vars(WaitPass) /\ WF_vars(Tick) /\ WF_vars(AerExec)

(***************************************************************************)
(* C1: after any insert/remove sequence with pairwise non-overlapping      *)
(* inserted ranges, find(v) returns, for every key v, the mapping          *)
(* (vaddr, len, iova) present in the index that contains v, and NULL when  *)
(* no present mapping contains v, whatever levels were drawn.              *)
(***************************************************************************)
FindReturnsContainingEntry ==
    \A v \in Keys :
        LET hits == {e \in live : Contains(e, v)}
            n == iommu_find_mapping(map, v)
        IN  IF hits = {}
            THEN n = NULL
            ELSE n # NULL /\ Mapping(map, n) \in hits

\* a mapping was just removed, two mappings are still present, linked on
\* more than one level, with a key between them that neither contains
FindAfterInsertRemove ==
    /\ ret.op = "remove" /\ ret.rc = 0
    /\ Cardinality(live) = 2
    /\ map.height >= 1
    /\ \E v \in Keys :
           /\ \A e \in live : ~Contains(e, v)
           /\ \E a, b \in live : a.vaddr < v /\ v < b.vaddr
           /\ iommu_find_mapping(map, v) = NULL

(***************************************************************************)
(* C2: after any sequence of map and unmap calls, translate(v) succeeds    *)
(* with entry.iova + (v - entry.vaddr) if and only if v lies in a mapping  *)
(* that was mapped and not yet unmapped, and reports no translation for    *)
(* every other v.                                                          *)
(***************************************************************************)
TranslateIffMapped ==
    \A v \in TKeys :
        LET hits == {e \in live : Contains(e, v)}
            t == iommu_vaddr_to_iova(map, v)
        IN  IF hits = {}
            THEN ~t.ok
            ELSE t.ok /\ \E e \in hits : t.iova = e.iova + (v - e.vaddr)

(***************************************************************************)
(* C3: when a live sticky mapping covers [vaddr, vaddr + len), map(vaddr,  *)
(* len) succeeds with the IOVA of that mapping, leaves the bump cursor,    *)
(* the index and the kernel mappings unchanged and makes no backend call.  *)
(***************************************************************************)
Covers(e, vaddr, len) == Contains(e, vaddr) /\ vaddr + len <= e.vaddr + e.len

MapIsIdempotent ==
    \A vaddr \in VAddrs, len \in Lens, dmaok \in BOOLEAN,
       lvl \in random_level :
        LET covering == {e \in live : Covers(e, vaddr, len)}
            r == vfio_map_vaddr(Ctx(map, iommu, dma), vaddr, len, dmaok,
                                TRUE, lvl)
        IN  covering # {} =>
                /\ r.rc = 0
                /\ \E e \in covering : r.iova = e.iova + (vaddr - e.vaddr)
                /\ r.calls = <<>>
                /\ r.ctx = Ctx(map, iommu, dma)

(***************************************************************************)
(* C4: unmap(vaddr) of an address in no live mapping succeeds, makes no    *)
(* backend call and leaves the index unchanged; of an address in a live    *)
(* mapping it calls DMA_UNMAP with that mapping's (iova, len), and erases  *)
(* exactly that entry when the call succeeded; when DMA_UNMAP fails the    *)
(* call fails and the index is unchanged.                                  *)
(***************************************************************************)
UnmapErasesAfterDmaUnmap ==
    \A vaddr \in TKeys, dmaok \in BOOLEAN :
        LET hits == {e \in live : Contains(e, vaddr)}
            r == vfio_unmap_vaddr(Ctx(map, iommu, dma), vaddr, dmaok)
        IN  IF hits = {}
            THEN r.rc = 0 /\ r.calls = <<>> /\ r.ctx.map = map
            ELSE \E e \in hits :
                    /\ Len(r.calls) = 1
                    /\ r.calls[1].name = "DMA_UNMAP"
                    /\ r.calls[1].iova = e.iova /\ r.calls[1].len = e.len
                    /\ IF dmaok
                       THEN /\ r.rc = 0
                            /\ Entries(r.ctx.map) = Entries(map) \ {e}
                       ELSE r.rc = -1 /\ r.ctx.map = map

(***************************************************************************)
(* C5: in every state reachable by sticky and ephemeral map and unmap      *)
(* calls, the IOVA range an allocation hands out overlaps the IOVA range   *)
(* of no mapping that is installed and not yet unmapped.                   *)
(***************************************************************************)
\* the lengths an allocation is asked for: whole pages, up to one page more
\* than the larger range holds
AllocLens == {k * VFN_PAGESIZE : k \in 0 .. (Range1Pages + 1)}

AllocationAvoidsLiveMappings ==
    \A len \in AllocLens \ {0} :
        LET a == iommu_get_iova(iommu, len)
        IN  a.rc = 0 =>
                \A d \in dma : ~Overlap(a.iova, len, d.iova, d.len)

(***************************************************************************)
(* C6: sticky_allocate(len) with a page-multiple len returns               *)
(* max(next, r.start) for the first range r, in range order, with          *)
(* max(next, r.start) + len - 1 <= r.last and sets next to that value plus *)
(* len (so a len of the exact remaining capacity succeeds); when no range  *)
(* fits it fails with NoSpace (ENOMEM) and leaves next unchanged.          *)
(***************************************************************************)
\* the ranges the claim lets an allocation of len fit in
Fits(io, len) ==
    {i \in 1 .. Len(iova_ranges) :
        Max(io.next, iova_ranges[i].start) + len - 1 <= iova_ranges[i].last}

PlacedFirstFit(io, len) ==
    LET a == iommu_get_iova(io, len)
        fits == Fits(io, len)
        first == CHOOSE i \in fits : \A j \in fits : i <= j
    IN  IF fits = {}
        THEN a.rc = -1 /\ a.errno = ENOMEM /\ a.iommu.next = io.next
        ELSE /\ a.rc = 0
             /\ a.iova = Max(io.next, iova_ranges[first].start)
             /\ a.iommu.next = a.iova + len

\* the claim as stated: every page multiple, zero included
StickyAllocateFirstFit == \A len \in AllocLens : PlacedFirstFit(iommu, len)

\* C6 as amended: for every positive page-multiple len, sticky_allocate
\* places the allocation first-fit and fails with NoSpace when no range fits
StickyAllocatePositiveFirstFit ==
    \A len \in AllocLens \ {0} : PlacedFirstFit(iommu, len)

\* every range is used up to its last byte and a further map found no space
RangesFilledExactly ==
    /\ iommu.next = iova_ranges[Len(iova_ranges)].last + 1
    /\ \E e \in live : e.iova + e.len = iova_ranges[1].last + 1
    /\ ret.op = "map" /\ ret.rc = -1 /\ ret.errno = ENOMEM

(***************************************************************************)
(* C7: a call that brings nephemeral back to 0 leaves the bump cursor at   *)
(* the watermark captured when nephemeral last went from 0 to 1, so the    *)
(* next allocation is placed at that watermark when the watermark's range  *)
(* has room for it.                                                        *)
(***************************************************************************)
\* an allocation from cursor state io is placed at w, unless the range of w
\* has no room for it
PlacedAt(io, w) ==
    \A len \in AllocLens \ {0} :
        LET a == iommu_get_iova(io, len)
        IN  a.rc = 0 =>
                \/ a.iova = w
                \/ \A i \in 1 .. Len(iova_ranges) :
                       iova_ranges[i].start <= w /\ w <= iova_ranges[i].last
                           => w + len - 1 > iova_ranges[i].last

CursorRewindsToWatermark ==
    /\ iommu.nephemeral = 1 =>
           \A h \in eph :
               LET r == vfio_unmap_ephemeral_iova(Ctx(map, iommu, dma),
                                                  h.len, h.iova, TRUE)
               IN  /\ r.rc = 0
                   /\ r.ctx.iommu.nephemeral = 0
                   /\ r.ctx.iommu.next = wmark
                   /\ PlacedAt(r.ctx.iommu, wmark)
    /\ iommu.nephemeral = 0 =>
           \A len \in Lens :
               LET r == vfio_map_vaddr_ephemeral(Ctx(map, iommu, dma),
                                                 EphBuf, len, FALSE)
               IN  r.errno = EIO =>
                       /\ r.ctx.iommu.nephemeral = 0
                       /\ r.ctx.iommu.next = r.iova

(***************************************************************************)
(* C8: the slots that are taken (by nvme_aer, or by an nvme_oneshot call   *)
(* between its acquire and its release) never number more than             *)
(* sq_depth - 1, and they and the free slots are the whole pool; when      *)
(* sq_depth - 1 slots are taken, acquire finds no slot, nvme_aer fails     *)
(* with EBUSY and nvme_oneshot fails, both without submitting anything;    *)
(* once a waiting call has released its slot, acquire succeeds again.      *)
(***************************************************************************)
Taken(q) ==
    Len(q.aer) + Cardinality({t \in Threads : q.one[t].rq # NULL})

SlotsWithinDepth ==
    /\ Taken(nvme) <= SqDepth - 1
    /\ Len(nvme.free) + Taken(nvme) = SqDepth - 1
    /\ Taken(nvme) = SqDepth - 1 =>
        /\ nvme_rq_acquire_atomic(nvme).rq = NULL
        /\ nvme_aer(nvme) = [q |-> nvme, rc |-> -1, errno |-> EBUSY]
        /\ \A buf \in {NULL, EphBuf}, dmaok \in BOOLEAN, prpok \in BOOLEAN :
               LET s == nvme_oneshot(Ctx(map, iommu, dma), nvme, buf,
                                     VFN_PAGESIZE, dmaok, prpok, TRUE)
               IN  /\ s.f.pc = "done" /\ s.f.ret = -1
                   /\ s.q = nvme /\ s.ctx = Ctx(map, iommu, dma)
        /\ \A t \in Threads :
               nvme.one[t].pc = "spin" /\ nvme.cq # <<>> =>
                   LET s == nvme_oneshot_spin(Ctx(map, iommu, dma), nvme,
                                              nvme.one[t], TRUE)
                   IN  s.f.pc = "done" =>
                           nvme_rq_acquire_atomic(s.q).rq # NULL

\* every slot is taken, by nvme_aer and by a waiting nvme_oneshot call, and
\* a further nvme_aer call was refused
PoolExhausted ==
    /\ Taken(nvme) = SqDepth - 1
    /\ nvme.aer # <<>>
    /\ \E t \in Threads : nvme.one[t].pc = "spin"
    /\ ret.op = "aer" /\ ret.rc = -1 /\ ret.errno = EBUSY

(***************************************************************************)
(* C9: a pass of the wait loop of nvme_oneshot consumes the CQE at the     *)
(* head of the queue; when its cid is not the cid of the slot the call     *)
(* submitted with, the call keeps its slot and goes on waiting, and when   *)
(* it is, the call returns with that CQE as cqe_copy; a call that returned *)
(* success returned a CQE with the cid of its slot.                        *)
(***************************************************************************)
OneshotSuccessNeedsMatchingCqe ==
    /\ \A t \in Threads, unmapok \in BOOLEAN :
           nvme.one[t].pc = "spin" /\ nvme.cq # <<>> =>
               LET f == nvme.one[t]
                   head == Head(nvme.cq)
                   s == nvme_oneshot_spin(Ctx(map, iommu, dma), nvme, f,
                                          unmapok)
               IN  /\ s.q.cq = Tail(nvme.cq)
                   /\ IF head.cid # f.rq
                      THEN /\ s.f.pc = "spin" /\ s.f.rq = f.rq
                           /\ s.q.free = nvme.free
                      ELSE s.f.pc = "done" /\ s.f.cqe = head
                   /\ s.f.pc = "done" /\ s.f.ret = 0 => head.cid = f.rq
    /\ ret.op = "oneshot" /\ ret.rc = 0 =>
           nvme.last.rq # NULL /\ nvme.last.cqe.cid = nvme.last.rq

\* a call returned success after its wait loop had consumed a spurious CQE
SuccessAfterSpuriousCqe ==
    /\ ret.op = "oneshot" /\ ret.rc = 0
    /\ nvme.last.spurious
    /\ nvme.last.cqe.cid = nvme.last.rq

(***************************************************************************)
(* C10: an nvme_oneshot call that acquired a slot releases it exactly once *)
(* before it returns, and calls unmap_ephemeral exactly once when its      *)
(* map_ephemeral had succeeded and not at all otherwise; when the call has *)
(* returned, the free list and (when the unmap did not fail) nephemeral    *)
(* are as they would be without the call.                                  *)
(***************************************************************************)
\* the record of a call that returned: one release for the slot it took,
\* one unmap for the mapping it installed
Balanced(f) ==
    /\ f.released = (IF f.rq # NULL THEN 1 ELSE 0)
    /\ f.unmapped = (IF f.mapped THEN 1 ELSE 0)

OneshotReleasesWhatItTook ==
    /\ \A buf \in {NULL, EphBuf}, len \in {VFN_PAGESIZE, VFN_PAGESIZE \div 2},
          dmaok \in BOOLEAN, prpok \in BOOLEAN, unmapok \in BOOLEAN :
           LET s == nvme_oneshot(Ctx(map, iommu, dma), nvme, buf, len, dmaok,
                                 prpok, unmapok)
           IN  IF s.f.pc = "done"
               THEN /\ Balanced(s.f)
                    /\ s.q.free = nvme.free
                    /\ unmapok \/ ~s.f.mapped =>
                           s.ctx.iommu.nephemeral = iommu.nephemeral
               ELSE /\ s.f.released = 0 /\ s.f.unmapped = 0
                    /\ s.f.mapped = (buf # NULL)
                    /\ s.q.free = Tail(nvme.free)
    /\ \A t \in Threads, unmapok \in BOOLEAN :
           nvme.one[t].pc = "spin" /\ nvme.cq # <<>> =>
               LET s == nvme_oneshot_spin(Ctx(map, iommu, dma), nvme,
                                          nvme.one[t], unmapok)
               IN  s.f.pc = "done" =>
                       /\ Balanced(s.f)
                       /\ Len(s.q.free) = Len(nvme.free) + 1
                       /\ unmapok =>
                              s.ctx.iommu.nephemeral =
                                  iommu.nephemeral
                                  - (IF s.f.mapped THEN 1 ELSE 0)
    /\ ret.op = "oneshot" =>
           /\ Balanced(nvme.last)
           /\ nvme.last.dfree = 0
           /\ nvme.last.unmaprc = 0 => nvme.last.dneph = 0

\* a call with a buffer returned a device error: the controller completed
\* its command with an error status, and the slot and the ephemeral
\* mapping were given back
DeviceErrorReturned ==
    /\ ret.op = "oneshot" /\ ret.rc = -1 /\ ret.errno = EIO
    /\ nvme.last.mapped /\ nvme.last.unmapped = 1 /\ nvme.last.released = 1
    /\ nvme.last.cqe.cid = nvme.last.rq
    /\ iommu.nephemeral = 0

(***************************************************************************)
(* C11: an nvme_oneshot call that returns failure reports the non-zero     *)
(* error code of the first step that failed: acquire, map_ephemeral,       *)
(* map_prp, the wait or unmap_ephemeral; the unmap_ephemeral and the       *)
(* release that run after the failure leave that code in place.            *)
(***************************************************************************)
\* the error code of the step that fails first in the part of the call up
\* to the submission; 0 when none fails
FirstErrorOfCall(c, q, buf, len, dmaok, prpok) ==
    IF nvme_rq_acquire_atomic(q).rq = NULL
    THEN nvme_rq_acquire_atomic(q).errno
    ELSE IF buf = NULL THEN 0
    ELSE LET m == vfio_map_vaddr_ephemeral(c, buf, len, dmaok)
         IN  IF m.rc # 0 THEN m.errno
             ELSE nvme_rq_map_prp(len, m.iova, prpok).errno

\* the error code of the step that fails first in the pass of the wait loop
\* that ends the wait of frame f, and in the unmap behind it; 0 when none
\* fails
FirstErrorOfWait(c, q, f, unmapok) ==
    LET w == nvme_rq_spin(q, f.rq)
    IN  IF w.rc < 0 THEN w.errno
        ELSE IF f.buf = NULL THEN 0
        ELSE vfio_unmap_ephemeral_iova(c, f.len, f.iova, unmapok).errno

OneshotReportsFirstError ==
    /\ \A buf \in {NULL, EphBuf}, len \in {VFN_PAGESIZE, VFN_PAGESIZE \div 2},
          dmaok \in BOOLEAN, prpok \in BOOLEAN, unmapok \in BOOLEAN :
           LET s == nvme_oneshot(Ctx(map, iommu, dma), nvme, buf, len, dmaok,
                                 prpok, unmapok)
           IN  s.f.pc = "done" /\ s.f.ret # 0 =>
                   /\ s.f.errno # 0
                   /\ s.f.errno = FirstErrorOfCall(Ctx(map, iommu, dma), nvme,
                                                   buf, len, dmaok, prpok)
    /\ \A t \in Threads, unmapok \in BOOLEAN :
           nvme.one[t].pc = "spin" /\ nvme.cq # <<>> =>
               LET s == nvme_oneshot_spin(Ctx(map, iommu, dma), nvme,
                                          nvme.one[t], unmapok)
               IN  s.f.pc = "done" /\ s.f.ret # 0 =>
                       /\ s.f.errno # 0
                       /\ s.f.errno = FirstErrorOfWait(Ctx(map, iommu, dma),
                                                       nvme, nvme.one[t],
                                                       unmapok)

(***************************************************************************)
(* C12: a wait called with timeout_ns = 0 on a completion queue that holds *)
(* no new CQE returns Timeout (ETIMEDOUT) from its first poll, and does    *)
(* not stay in its loop until a CQE arrives.                               *)
(***************************************************************************)
WaitZeroReturnsTimeout ==
    nvme.cq = <<>> =>
        \A n \in 1 .. MaxWaitN :
            LET w == nvme_cq_wait_cqes(n, 0, nvme.ticks)
                s == IF w.pc = "get" THEN nvme_cq_get_cqes_pass(nvme, w)
                     ELSE nvme_cq_wait_cqes_pass(nvme, w, nvme.ticks)
            IN  /\ s.w.pc = "done"
                /\ s.w.ret # 0
                /\ s.w.errno = ETIMEDOUT

(***************************************************************************)
(* C13: a wait for n >= 1 CQEs with timeout_ns > 0 terminates; a pass of   *)
(* its loop consumes the CQE at the head of the queue when there is one;   *)
(* the wait returns 0 as soon as it has consumed n CQEs, having consumed   *)
(* exactly n, and it returns the positive number of CQEs still missing,    *)
(* with ETIMEDOUT, as soon as a pass finds the deadline passed while CQEs  *)
(* are still missing.                                                      *)
(***************************************************************************)
\* what a pass of the timed loop does in the present state
TimedPassIsRight ==
    nvme.wait.pc = "wait" =>
        LET w == nvme.wait
            s == nvme_cq_wait_cqes_pass(nvme, w, nvme.ticks)
            took == IF nvme.cq = <<>> THEN 0 ELSE 1
            missing == w.n0 - (w.reaped + took)
        IN  /\ w.n > 0 /\ w.n = w.n0 - w.reaped
            /\ s.w.reaped = w.reaped + took
            /\ Len(s.q.cq) = Len(nvme.cq) - took
            /\ IF missing = 0
               THEN s.w.pc = "done" /\ s.w.ret = 0 /\ s.w.errno = 0
               ELSE IF nvme.ticks >= w.timeout
               THEN /\ s.w.pc = "done" /\ s.w.ret = missing
                    /\ s.w.errno = ETIMEDOUT
               ELSE s.w.pc = "wait"

\* what a timed wait that returned has returned
TimedWaitReturned ==
    nvme.wait.pc = "done" /\ nvme.wait.timeout_ns > 0 =>
        LET w == nvme.wait
        IN  /\ w.ret = w.n0 - w.reaped
            /\ w.ret >= 0
            /\ w.errno = (IF w.ret > 0 THEN ETIMEDOUT ELSE 0)

TimedWaitTerminates ==
    /\ [](TimedPassIsRight /\ TimedWaitReturned)
    /\ (nvme.wait.pc = "wait" ~> nvme.wait.pc = "done")

\* a wait for two CQEs consumed one and then timed out with one missing
TimedOutOneMissing ==
    /\ ret.op = "wait" /\ ret.rc = 1 /\ ret.errno = ETIMEDOUT
    /\ nvme.wait.pc = "done" /\ nvme.wait.n0 = 2 /\ nvme.wait.reaped = 1
    /\ nvme.ticks >= nvme.wait.timeout

(***************************************************************************)
(* C14: nvme_set_errno_from_cqe returns -1 with EIO exactly when the       *)
(* status word of the CQE has a bit other than the phase bit set, and 0    *)
(* otherwise; an nvme_oneshot call whose command the controller completed  *)
(* with such a status returns -1 with EIO, and the CQE it hands back is    *)
(* the CQE the controller posted, status word included.                    *)
(***************************************************************************)
\* status words with either phase, no status, and low and high status bits
StatusWords == {0, 1, 2, 3, 512, 513, 32768, 32769, 65534, 65535}

\* the status word has a bit other than bit 0 set
HasStatus(sfp) == sfp - (sfp % 2) # 0

DeviceErrorIffStatus ==
    /\ \A sfp \in StatusWords, cid \in Cids :
           nvme_set_errno_from_cqe([cid |-> cid, sfp |-> sfp])
               = IF HasStatus(sfp) THEN [rc |-> -1, errno |-> EIO]
                 ELSE [rc |-> 0, errno |-> 0]
    /\ \A t \in Threads, sfp \in StatusWords, unmapok \in BOOLEAN :
           nvme.one[t].pc = "spin" =>
               LET f == nvme.one[t]
                   posted == [cid |-> f.rq, sfp |-> sfp]
                   s == nvme_oneshot_spin(Ctx(map, iommu, dma),
                            [nvme EXCEPT !.cq = <<posted>> \o @], f, unmapok)
               IN  /\ s.f.pc = "done"
                   /\ s.f.cqe = posted
                   /\ HasStatus(sfp) => s.f.ret = -1 /\ s.f.errno = EIO
                   /\ ~HasStatus(sfp) /\ unmapok => s.f.ret = 0
    /\ ret.op = "oneshot" /\ nvme.last.cqe # NoCqe =>
           /\ nvme.last.cqe.cid = nvme.last.rq
           /\ (ret.rc = -1 /\ ret.errno = EIO) <=> HasStatus(nvme.last.cqe.sfp)
           /\ nvme.last.unmaprc = 0 =>
                  (ret.rc = 0 <=> ~HasStatus(nvme.last.cqe.sfp))

\* a call without a buffer returned a device error and handed back the CQE
\* with the error status the controller posted
ErrorCqeHandedBack ==
    /\ ret.op = "oneshot" /\ ret.rc = -1 /\ ret.errno = EIO
    /\ ~nvme.last.mapped
    /\ nvme.last.cqe = [cid |-> nvme.last.rq, sfp |-> 2]

(***************************************************************************)
(* C15: the slot of a successful nvme_aer call is not in the free list and *)
(* is handed to no other command while no CQE with its command identifier  *)
(* has been consumed; nvme_aer fails with EBUSY and submits nothing when   *)
(* the free list is empty; and no two commands in flight on the admin      *)
(* queue carry the same cid: every submission stamps a cid that no command *)
(* in flight carries.                                                      *)
(***************************************************************************)
\* the slots nvme_aer holds, the slots in the free list, the slots of the
\* waiting nvme_oneshot calls, and the cids of the posted CQEs
AerSlots(q) == {q.aer[i] : i \in 1 .. Len(q.aer)}

FreeSlots(q) == {q.free[i] : i \in 1 .. Len(q.free)}

HeldSlots(q) == {q.one[t].rq : t \in {u \in Threads : q.one[u].pc = "spin"}}

PostedCids(q) == {q.cq[i].cid : i \in 1 .. Len(q.cq)}

AerSlotStaysReserved ==
    /\ AerSlots(nvme) \cap FreeSlots(nvme) = {}
    /\ AerSlots(nvme) \cap HeldSlots(nvme) = {}
    /\ Cardinality(AerSlots(nvme)) = Len(nvme.aer)
    /\ Cardinality(FreeSlots(nvme)) = Len(nvme.free)
    /\ \A t, u \in Threads :
           /\ t # u /\ nvme.one[t].pc = "spin" /\ nvme.one[u].pc = "spin"
           => nvme.one[t].rq # nvme.one[u].rq
    \* the commands in flight are those of the slots that are taken, one
    \* each, fetched by the controller or completed and not yet consumed
    /\ nvme.sq \cap PostedCids(nvme) = {}
    /\ Cardinality(PostedCids(nvme)) = Len(nvme.cq)
    /\ nvme.sq \cup PostedCids(nvme)
           \subseteq HeldSlots(nvme)
                      \cup {rq + NVME_CID_AER : rq \in AerSlots(nvme)}
    \* nvme_aer
    /\ LET r == nvme_aer(nvme)
       IN  IF nvme.free = <<>>
           THEN r = [q |-> nvme, rc |-> -1, errno |-> EBUSY]
           ELSE /\ r.rc = 0
                /\ Head(nvme.free) \in AerSlots(r.q)
                /\ Head(nvme.free) \notin FreeSlots(r.q)
                /\ Head(nvme.free) + NVME_CID_AER
                       \notin nvme.sq \cup PostedCids(nvme)
                /\ r.q.sq = nvme.sq \cup {Head(nvme.free) + NVME_CID_AER}
    \* the submission of nvme_oneshot
    /\ \A buf \in {NULL, EphBuf}, dmaok \in BOOLEAN :
           LET s == nvme_oneshot(Ctx(map, iommu, dma), nvme, buf,
                                 VFN_PAGESIZE, dmaok, TRUE, TRUE)
           IN  s.f.pc = "spin" =>
                   /\ s.f.rq \notin AerSlots(nvme)
                   /\ s.f.rq \notin nvme.sq \cup PostedCids(nvme)
                   /\ s.q.sq = nvme.sq \cup {s.f.rq}

\* nvme_aer took the first slot and its command is still with the
\* controller; an nvme_oneshot call has since run on another slot
AerOutlivesOneshot ==
    /\ nvme.aer = <<0>>
    /\ NVME_CID_AER \in nvme.sq
    /\ ret.op = "oneshot" /\ ret.rc = 0
    /\ nvme.last.rq = 1 /\ nvme.last.released = 1
    /\ 0 \notin FreeSlots(nvme)

(***************************************************************************)
(* C16: when, in map, the index insert fails after DMA_MAP succeeded, map  *)
(* calls DMA_UNMAP for the (iova, len) it mapped before it returns the     *)
(* error, and the failed map leaves the kernel mappings as they were.      *)
(***************************************************************************)
MapUndoesDmaMapOnInsertFailure ==
    \A vaddr \in VAddrs, len \in Lens, dmaok \in BOOLEAN, memok \in BOOLEAN,
       lvl \in random_level :
        LET r == vfio_map_vaddr(Ctx(map, iommu, dma), vaddr, len, dmaok,
                                memok, lvl)
        IN  /\ r.rc # 0
            /\ r.calls # <<>>
            /\ r.calls[1].name = "DMA_MAP" /\ r.calls[1].rc = 0
            => /\ Len(r.calls) = 2
               /\ r.calls[2] = Call("DMA_UNMAP", r.calls[1].iova, len, 0)
               /\ r.ctx.dma = dma
               /\ r.ctx.map = map

(***************************************************************************)
(* C17: when DMA_MAP fails in map_ephemeral, the call returns an error,    *)
(* nephemeral is what it was before the call, the index is unchanged, and, *)
(* when nephemeral was 0, the bump cursor is back where it was before the  *)
(* call.                                                                   *)
(***************************************************************************)
\* the map_ephemeral calls in the present state whose DMA_MAP fails
FailedEphemeralMaps ==
    {r \in {[len |-> len,
             res |-> vfio_map_vaddr_ephemeral(Ctx(map, iommu, dma), EphBuf,
                                              len, dmaok)] :
                len \in Lens, dmaok \in BOOLEAN} :
        r.res.calls # <<>> /\ r.res.calls[1].rc # 0}

\* the error is returned, the allocation is released and nothing else has
\* changed
EphemeralReleased(r) ==
    /\ r.res.rc = -1
    /\ r.res.ctx.iommu.nephemeral = iommu.nephemeral
    /\ r.res.ctx.map = map
    /\ r.res.ctx.dma = dma

\* C17 as stated: the cursor is where it was before the call
EphemeralMapFailureRestoresCursor ==
    \A r \in FailedEphemeralMaps :
        /\ EphemeralReleased(r)
        /\ iommu.nephemeral = 0 => r.res.ctx.iommu.next = iommu.next

\* C17 as amended: the cursor is at the IOVA the failed call had allocated,
\* which is the cursor before the call except when the allocation was
\* placed at the start of a later range
EphemeralMapFailureRewindsToAllocation ==
    \A r \in FailedEphemeralMaps :
        /\ EphemeralReleased(r)
        /\ iommu.nephemeral = 0 =>
               /\ r.res.ctx.iommu.next = r.res.calls[1].iova
               /\ \/ r.res.ctx.iommu.next = iommu.next
                  \/ \E i \in 1 .. Len(iova_ranges) :
                         /\ r.res.ctx.iommu.next = iova_ranges[i].start
                         /\ iommu.next < iova_ranges[i].start

\* a map_ephemeral call whose DMA_MAP failed has left nephemeral at 0 and
\* the cursor at the start of the second range, the cursor having been in
\* the first range when a sticky mapping was last allocated
EphemeralMapFailedInSecondRange ==
    /\ ret.op = "map_ephemeral" /\ ret.rc = -1 /\ ret.errno = EIO
    /\ iommu.nephemeral = 0 /\ eph = {}
    /\ iommu.next = iova_ranges[2].start
    /\ live # {}
    /\ \A e \in live : e.iova + e.len <= iova_ranges[1].last + 1

(***************************************************************************)
(* C18: insert(vaddr, len, iova) fails with EEXIST whenever an entry of    *)
(* the index contains vaddr, and remove(vaddr) fails with ENOENT whenever  *)
(* no entry contains vaddr, both leaving the entries and the height as     *)
(* they were; a successful remove deletes one entry, an entry containing   *)
(* vaddr, and after it find reaches every other entry from every address   *)
(* the entry contains.                                                     *)
(***************************************************************************)
\* the positions of the entries of m that contain v
Holders(m, v) == {n \in 1 .. Len(m.list) : Contains(Mapping(m, n), v)}

\* find reaches the mapping e of m from every address e contains
Findable(m, e) ==
    \A v \in Keys :
        Contains(e, v) =>
            /\ iommu_find_mapping(m, v) # NULL
            /\ Mapping(m, iommu_find_mapping(m, v)) = e

InsertAndRemoveFailCleanly ==
    /\ \A vaddr \in Keys, len \in 1 .. MaxLen, lvl \in random_level,
          memok \in BOOLEAN :
           Holders(map, vaddr) # {} =>
               iova_map_add(map, vaddr, len, IOVA_MIN + vaddr, lvl, memok)
                   = [map |-> map, rc |-> -1, errno |-> EEXIST]
    /\ \A vaddr \in Keys :
           LET r == iova_map_remove(map, vaddr)
           IN  IF Holders(map, vaddr) = {}
               THEN r = [map |-> map, rc |-> -1, errno |-> ENOENT]
               ELSE /\ r.rc = 0
                    /\ \E n \in Holders(map, vaddr) :
                           /\ Len(r.map.list) = Len(map.list) - 1
                           /\ Entries(r.map) = Entries(map) \ {Mapping(map, n)}
                           /\ \A e \in Entries(r.map) : Findable(r.map, e)

(***************************************************************************)
(* C19: after any insert and remove calls, with any vaddr, len > 0 and     *)
(* iova, no two entries of the index overlap in vaddr, and an insert whose *)
(* range [vaddr, vaddr + len) overlaps an entry fails with EEXIST and adds *)
(* nothing.                                                                *)
(***************************************************************************)
EntriesNeverOverlap ==
    /\ \A i, j \in 1 .. Len(map.list) :
           i # j => ~Overlap(map.list[i].vaddr, map.list[i].len,
                             map.list[j].vaddr, map.list[j].len)
    /\ \A vaddr \in Keys, len \in 1 .. MaxLen, lvl \in random_level :
           (\E e \in Entries(map) : Overlap(vaddr, len, e.vaddr, e.len)) =>
               iova_map_add(map, vaddr, len, IOVA_MIN + vaddr, lvl, TRUE)
                   = [map |-> map, rc |-> -1, errno |-> EEXIST]

(***************************************************************************)
(* C20: clear(callback) removes every entry of the index; it calls the     *)
(* callback once for each entry that was present, before it frees the      *)
(* entry, and never for the sentinel or for nil; it frees each entry once  *)
(* and does not free the sentinel or nil.                                  *)
(***************************************************************************)
\* the positions in the event sequence ev of the events of kind k on node n
EventsOn(ev, k, n) == {i \in 1 .. Len(ev) : ev[i] = [ev |-> k, n |-> n]}

ClearReleasesEntriesOnly ==
    IndexInUse =>
    \A fn \in BOOLEAN, ub \in FreeOutcomes :
        LET r == iova_map_clear_with(map, fn, ub)
        IN  /\ ~r.aborted
            /\ r.map.list = <<>>
            /\ \A n \in 1 .. Len(map.list) :
                   /\ Cardinality(EventsOn(r.events, "free", n)) = 1
                   /\ Cardinality(EventsOn(r.events, "fn", n))
                          = (IF fn THEN 1 ELSE 0)
                   /\ \A i \in EventsOn(r.events, "fn", n),
                         j \in EventsOn(r.events, "free", n) : i < j
            /\ \A n \in {sentinel, nil} :
                   /\ EventsOn(r.events, "fn", n) = {}
                   /\ EventsOn(r.events, "free", n) = {}

(***************************************************************************)
(* C24: in every state reached by insert and remove calls the height of    *)
(* the index is the highest level an entry is linked on (0 when there is   *)
(* none) and every level above the height holds the sentinel and nil only; *)
(* an insert raises the height by at most one and a remove never raises    *)
(* it; when the last entry has been removed the height is 0 and find       *)
(* returns NULL for every key.                                             *)
(***************************************************************************)
\* the highest level an entry of m is linked on, 0 when m has no entry
TopLevel(m) ==
    IF m.list = <<>> THEN 0
    ELSE CHOOSE k \in Levels :
             /\ \E n \in 1 .. Len(m.list) : m.list[n].top = k
             /\ \A n \in 1 .. Len(m.list) : m.list[n].top <= k

HeightIsTopLevel ==
    /\ [](/\ map.height = TopLevel(map)
          /\ \A k \in Levels :
                 k > map.height => skip_list_next(map, sentinel, k) = nil
          /\ map.list = <<>> =>
                 /\ map.height = 0
                 /\ \A v \in Keys : iommu_find_mapping(map, v) = NULL)
    /\ [][/\ ret'.op = "insert" =>
                 map'.height >= map.height /\ map'.height <= map.height + 1
          /\ ret'.op = "remove" => map'.height <= map.height]_vars

\* the last entry, linked above level 0, has been removed
LastEntryRemoved ==
    /\ ret = Returned("remove", 0, 0)
    /\ map.list = <<>>
    /\ map.height = 0
    /\ \E vaddr \in Keys, len \in 1 .. MaxLen :
           \E prev \in {[height |-> 1,
                         list |-> <<[vaddr |-> vaddr, len |-> len,
                                     iova |-> IOVA_MIN + vaddr, top |-> 1]>>]} :
               iova_map_remove(prev, vaddr).map = map

(***************************************************************************)
(* C25: when map(vaddr, len) returns 0 with the IOVA x, every address of   *)
(* the requested range translates afterwards: for 0 <= k < len,            *)
(* translate(vaddr + k) succeeds with x + k; also when a mapping that      *)
(* contains vaddr ends before vaddr + len.                                 *)
(***************************************************************************)
\* offsets into a range of len bytes: the first and last byte of each page
Offsets(len) ==
    {k \in {p * VFN_PAGESIZE + o :
                p \in 0 .. MaxLenPages, o \in {0, 8, VFN_PAGESIZE - 1}} :
        k < len}

MappedRangeTranslates ==
    \A vaddr \in VAddrs, len \in Lens, dmaok \in BOOLEAN,
       lvl \in random_level :
        LET r == vfio_map_vaddr(Ctx(map, iommu, dma), vaddr, len, dmaok,
                                TRUE, lvl)
        IN  r.rc = 0 =>
                \A k \in Offsets(len) :
                    iommu_vaddr_to_iova(r.ctx.map, vaddr + k)
                        = [ok |-> TRUE, iova |-> r.iova + k]

(***************************************************************************)
(* C23: vfio_open makes its calls in the order open container, API         *)
(* version, Type-1 check, open group, group status (viability), attach     *)
(* group, set IOMMU type, IOMMU info, and a second IOMMU info only when    *)
(* the reported argsz exceeds the buffer; it makes the calls up to the     *)
(* first one that fails and none after it; when it returns -1 every        *)
(* descriptor it opened has been closed and no other descriptor has.       *)
(***************************************************************************)
\* the calls of a vfio_open in which nothing fails
OpenSteps(env) ==
    <<"open_container", "get_api_version", "check_extension", "open_group",
      "group_get_status", "group_set_container", "set_iommu",
      "iommu_get_info">>
    \o (IF env.argsz > InfoSize THEN <<"iommu_get_info">> ELSE <<>>)

\* whether the i-th call fails under env
StepFails(env, i) ==
    CASE i = 1 -> ~env.open_container
      [] i = 2 -> env.api_version # VFIO_API_VERSION
      [] i = 3 -> env.type1 = 0
      [] i = 4 -> ~env.open_group
      [] i = 5 -> env.get_status # 0 \/ ~env.viable
      [] i = 6 -> env.set_container # 0
      [] i = 7 -> env.set_iommu # 0
      [] i = 8 -> env.get_info # 0
      [] i = 9 -> env.get_info2 # 0

\* the first call from the i-th on that fails, the last call when none does
RECURSIVE FirstFailure(_, _)
FirstFailure(env, i) ==
    IF i >= Len(OpenSteps(env)) \/ StepFails(env, i) THEN i
    ELSE FirstFailure(env, i + 1)

\* the calls made up to the first failing one (all when none fails)
StepsMade(env) == FirstFailure(env, 1)

OpenStopsAtFirstFailure ==
    \A env \in OpenEnvs :
        LET r == vfio_open(vfio.fds, env)
            n == StepsMade(env)
            failed == StepFails(env, n)
            closes == SubSeq(r.calls, n + 1, Len(r.calls))
        IN  /\ Len(r.calls) >= n
            /\ SubSeq(r.calls, 1, n) = SubSeq(OpenSteps(env), 1, n)
            /\ r.rc = (IF failed THEN -1 ELSE 0)
            /\ IF failed
               THEN /\ r.fds = vfio.fds
                    /\ closes = (IF n >= 5 THEN <<"close_group">> ELSE <<>>)
                                \o (IF n >= 2 THEN <<"close_container">>
                                               ELSE <<>>)
               ELSE /\ closes = <<>>
                    /\ r.container \notin vfio.fds
                    /\ r.group \notin vfio.fds
                    /\ r.container # r.group
                    /\ r.fds = vfio.fds \cup {r.container, r.group}

\* a vfio_open failed because its group is not viable, while another group
\* is open: the descriptors of the open group are all that is left
OpenFailedAfterGroupOpen ==
    \E i, j \in VfioStates :
        /\ ret.op = "vfio_open" /\ ret.rc = -1 /\ ret.errno = EINVAL
        /\ vfio.st[i].opened /\ ~vfio.st[j].opened
        /\ vfio.st[j].group \notin vfio.fds
        /\ vfio.st[j].container \notin vfio.fds
        /\ vfio.fds = StdFds \cup {vfio.st[i].container, vfio.st[i].group}

(***************************************************************************)
(* C26: when the threads run nvme_oneshot on the same queue pair and the   *)
(* controller posts one CQE for every command it fetched, then under fair  *)
(* scheduling every call that reached its wait loop returns, and it        *)
(* returns with the CQE of its own command.                                *)
(***************************************************************************)
OneshotsReturnOwnCqe ==
    /\ \A t \in Threads :
           (nvme.one[t].pc = "spin") ~> (nvme.one[t].pc = "idle")
    /\ [][\A t \in Threads :
             (nvme.one[t].pc = "spin" /\ nvme'.one[t].pc # "spin") =>
                 nvme'.one[t].cqe.cid = nvme.one[t].rq]_vars

(***************************************************************************)
(* C21: for every interleaving of the map and unmap calls of the threads,  *)
(* once all calls have returned the DMA mappings installed in the kernel   *)
(* are the entries of the index, no mapping received more than one         *)
(* DMA_UNMAP, and no call read an index entry after another thread had     *)
(* freed it.                                                               *)
(***************************************************************************)
AllReturned == \A t \in Threads : thr[t].pc = "idle"

ConcurrentMapUnmapIsSafe ==
    /\ [](AllReturned => dma = Entries(map))
    /\ [][\A t \in Threads :
             (thr[t].pc = "u_dma" /\ thr'[t].pc = "u_remove") =>
                 dma' # dma]_vars
    /\ [](\A t \in Threads : ~thr[t].dangling)

(***************************************************************************)
(* C22: under every interleaving of the map_ephemeral and unmap_ephemeral  *)
(* calls of the threads, a step that takes nephemeral from 1 to 0 is the   *)
(* decrement of exactly one call, which sees 0, and the rewind of the      *)
(* cursor that this call makes is applied in a state where nephemeral is   *)
(* 0: never while an ephemeral IOVA of another thread is outstanding.      *)
(***************************************************************************)
\* the threads whose call sees its decrement return 0 in this step
SeesZero == {t \in Threads : ~thr[t].zero /\ thr'[t].zero}

\* the threads whose call rewinds the cursor in this step
Rewinds ==
    {t \in Threads :
        thr[t].pc \in {"e_recycle", "x_recycle"} /\ thr'[t].pc = "idle"}

RewindOnlyWhenDrained ==
    [][/\ (iommu.nephemeral = 1 /\ iommu'.nephemeral = 0) <=>
              Cardinality(SeesZero) = 1
       /\ Cardinality(SeesZero) <= 1
       /\ Rewinds # {} => iommu.nephemeral = 0]_vars

====
